---------------------------- MODULE Spec2Model ----------------------------
(***************************************************************************)
(* State-machine model of ACosmosControlSensor (CosmosControlSensor.cpp / *)
(* CosmosControlSensor.h): construction, Set -> LoadConfigFromFile,       *)
(* GetColorByTag, and the per-tick handler PostPhysTick with its dynamic  *)
(* pass and its four one-time annotators.                                 *)
(*                                                                         *)
(* Conventions.  Lengths are whole world units.  A colour is the triple   *)
(* <<R, G, B>> (alpha is always 255 in the source).  A point or vector is *)
(* the triple <<x, y, z>>.  A drawable primitive is a record of one fixed *)
(* shape (Primitive below); fields a kind does not use hold 0 or <<>>.    *)
(***************************************************************************)
EXTENDS Integers, Sequences, FiniteSets, TLC

VARIABLES
    configFile,                   \* Config/CosmosControlConfig.json as found on disk
    configured,                   \* Set(Description) has run
    RenderConfig,                 \* CosmosRenderConfig RenderConfig
    added_persisted_stop_lines,
    added_persisted_route_lines,
    added_persisted_crosswalks,
    added_persisted_stencils,
    DynamicLines,                 \* content of the DynamicLines batch component
    PersistentLines,              \* content of the PersistentLines batch component
    trafficLights,                \* ATrafficLightBase actors of the world, in actor order
    roadSplines,                  \* ARoadSpline actors of the world, in actor order
    meshComponents,               \* UMeshComponent objects, in GetObjectsOfClass order
    gameMode,                     \* Cast<ACarlaGameModeBase>(World->GetAuthGameMode()) != nullptr
    crosswalkZones,               \* Map::GetAllCrosswalkZones(), metres
    roadStencils,                 \* Map::GetStencils()
    dedicatedServer,              \* GEngine->GetNetMode(World) == NM_DedicatedServer
    actorRegistry,                \* GetEpisode().GetActorRegistry(), in iteration order
    steps,                        \* the steps the last PostPhysTick call performed, in order
    pendingReadbacks,             \* readback commands queued on the render thread
    crashed                       \* the process died on a null dereference

vars == <<configFile, configured, RenderConfig,
          added_persisted_stop_lines, added_persisted_route_lines,
          added_persisted_crosswalks, added_persisted_stencils,
          DynamicLines, PersistentLines,
          trafficLights, roadSplines, meshComponents, gameMode,
          crosswalkZones, roadStencils, dedicatedServer, actorRegistry,
          steps, pendingReadbacks, crashed>>

worldVars == <<trafficLights, roadSplines, meshComponents, gameMode,
               crosswalkZones, roadStencils, dedicatedServer, actorRegistry>>

flagVars == <<added_persisted_stop_lines, added_persisted_route_lines,
              added_persisted_crosswalks, added_persisted_stencils>>

----------------------------------------------------------------------------
(* Generic helpers                                                         *)

Range(s) == {s[i] : i \in 1..Len(s)}

IsPrefix(s, t) == Len(s) <= Len(t) /\ SubSeq(t, 1, Len(s)) = s

RECURSIVE SeqsUpTo(_, _)
SeqsUpTo(S, n) ==
    IF n = 0 THEN {<<>>}
    ELSE LET shorter == SeqsUpTo(S, n - 1)
         IN  shorter \cup {Append(s, x) : s \in {t \in shorter : Len(t) = n - 1}, x \in S}

VAdd(u, v) == <<u[1] + v[1], u[2] + v[2], u[3] + v[3]>>
VScale(k, v) == <<k * v[1], k * v[2], k * v[3]>>

Max2(a, b) == IF a >= b THEN a ELSE b

----------------------------------------------------------------------------
(* CosmosRenderConfig and its built-in defaults (CosmosControlSensor.h)    *)

White == <<255, 255, 255>>

DefaultRenderConfig ==
    [ RoadLineThickness   |-> 8,
      VehicleBoxThickness |-> 5,
      PoleThickness       |-> 8,
      StopLineThickness   |-> 8,
      LaneLinesColor      |-> <<98, 183, 249>>,
      RoadBoundariesColor |-> <<200, 36, 35>>,
      WaitLinesColor      |-> <<185, 63, 34>>,
      CrosswalksColor     |-> <<206, 131, 63>>,
      RoadMarkingsColor   |-> <<126, 204, 205>>,
      TrafficSignsColor   |-> <<131, 175, 155>>,
      TrafficLightsColor  |-> <<252, 157, 155>>,
      CarsColor           |-> <<255, 0, 0>>,
      TrucksColor         |-> <<0, 0, 255>>,
      PedestriansColor    |-> <<0, 255, 0>>,
      CyclistsColor       |-> <<255, 255, 0>>,
      PolesColor          |-> <<66, 40, 144>> ]

----------------------------------------------------------------------------
(* The configuration file.                                                 *)
(*   status       what the file system and the JSON parser make of it      *)
(*   hasRoot      the root object has an object "CosmosControlVisualization"*)
(*   hasThickness that object has an object "LineThickness"                *)
(*   thickness    the number fields of "LineThickness" (key -> number)     *)
(*   hasColors    the object has an object "Colors"                        *)
(*   colors       the array fields of "Colors" (key -> array of numbers)   *)

ThicknessKeys == {"road_lines", "vehicle_boxes", "poles", "stop_lines"}

ColorKeys == {"lane_lines", "road_boundaries", "crosswalks", "road_markings",
              "traffic_signs", "traffic_lights", "cars", "trucks",
              "pedestrians", "cyclists", "poles"}

\* FJsonObject::GetObjectField(name): the engine returns the field's object, and
\* for an absent field (or one that is no object) it logs and returns the shared
\* EMPTY_OBJECT, a valid pointer to an object without fields; never a null pointer.
\* The result is [valid |-> the pointer is non-null, present |-> the field existed].
GetObjectField(present) == [valid |-> TRUE, present |-> present]

\* FJsonObject::GetNumberField(name): the field's number; for an absent field the
\* engine logs and returns FJsonValueNull::AsNumber(), which is 0.0.
GetNumberField(obj, key) == IF key \in DOMAIN obj THEN obj[key] ELSE 0

\* The LoadColor lambda: TryGetArrayField succeeds only for a present array field,
\* and only an array of exactly 3 elements replaces the colour (alpha 255).
LoadColor(colors, key, color) ==
    IF key \in DOMAIN colors /\ Len(colors[key]) = 3
    THEN <<colors[key][1], colors[key][2], colors[key][3]>>
    ELSE color

LoadThickness(cfg, obj) ==
    [cfg EXCEPT !.RoadLineThickness   = GetNumberField(obj, "road_lines"),
                !.VehicleBoxThickness = GetNumberField(obj, "vehicle_boxes"),
                !.PoleThickness       = GetNumberField(obj, "poles"),
                !.StopLineThickness   = GetNumberField(obj, "stop_lines")]

LoadColors(cfg, colors) ==
    [cfg EXCEPT !.LaneLinesColor      = LoadColor(colors, "lane_lines", @),
                !.RoadBoundariesColor = LoadColor(colors, "road_boundaries", @),
                !.CrosswalksColor     = LoadColor(colors, "crosswalks", @),
                !.RoadMarkingsColor   = LoadColor(colors, "road_markings", @),
                !.TrafficSignsColor   = LoadColor(colors, "traffic_signs", @),
                !.TrafficLightsColor  = LoadColor(colors, "traffic_lights", @),
                !.CarsColor           = LoadColor(colors, "cars", @),
                !.TrucksColor         = LoadColor(colors, "trucks", @),
                !.PedestriansColor    = LoadColor(colors, "pedestrians", @),
                !.CyclistsColor       = LoadColor(colors, "cyclists", @),
                !.PolesColor          = LoadColor(colors, "poles", @)]

\* An empty JSON object: no field at all.
EmptyObject == [k \in {} |-> 0]

\* LoadConfigFromFile: the RenderConfig it leaves behind, given the one it found.
LoadConfigFromFile(cfg, file) ==
    IF file.status = "missing" THEN cfg
    ELSE IF file.status = "unreadable" THEN cfg
    ELSE IF file.status = "unparsable" THEN cfg
    ELSE
      LET Config    == GetObjectField(file.hasRoot)
          Thickness == GetObjectField(Config.present /\ file.hasThickness)
          Colors    == GetObjectField(Config.present /\ file.hasColors)
          thickObj  == IF Thickness.present THEN file.thickness ELSE EmptyObject
          colorObj  == IF Colors.present THEN file.colors ELSE EmptyObject
          afterThickness == IF Thickness.valid THEN LoadThickness(cfg, thickObj) ELSE cfg
      IN  IF ~Config.valid THEN cfg
          ELSE IF Colors.valid THEN LoadColors(afterThickness, colorObj)
               ELSE afterThickness

----------------------------------------------------------------------------
(* GetColorByTag                                                           *)

\* The labels the switch names, and some of the enumeration's other labels.
NamedLabels == {"TrafficLight", "TrafficSigns", "Poles", "Car", "Bus",
                "Motorcycle", "Train", "Truck", "Bicycle", "Pedestrians"}

OtherLabels == {"None", "Roads", "Buildings", "Rider", "Other"}

CityObjectLabel == NamedLabels \cup OtherLabels

GetColorByTag_BusAsTruck(cfg, Tag) ==
    CASE Tag = "TrafficLight" -> cfg.TrafficLightsColor
      [] Tag = "TrafficSigns" -> cfg.TrafficSignsColor
      [] Tag = "Poles"        -> cfg.PolesColor
      [] Tag \in {"Car", "Motorcycle", "Train"} -> cfg.CarsColor
      [] Tag \in {"Truck", "Bus"} -> cfg.TrucksColor
      [] Tag = "Bicycle"      -> cfg.CyclistsColor
      [] Tag = "Pedestrians"  -> cfg.PedestriansColor
      [] OTHER                -> White

GetColorByTag(cfg, Tag) ==
    CASE Tag = "TrafficLight" -> cfg.TrafficLightsColor
      [] Tag = "TrafficSigns" -> cfg.TrafficSignsColor
      [] Tag = "Poles"        -> cfg.PolesColor
      [] Tag \in {"Car", "Bus", "Motorcycle", "Train"} -> cfg.CarsColor
      [] Tag = "Truck"        -> cfg.TrucksColor
      [] Tag = "Bicycle"      -> cfg.CyclistsColor
      [] Tag = "Pedestrians"  -> cfg.PedestriansColor
      [] OTHER                -> White

----------------------------------------------------------------------------
(* Drawing.  The state a PostPhysTick call works on is the record          *)
(*   [dyn, pers, stop, route, cw, st, steps, sent, crashed]                *)
(* (the two batches, the four flags, the step log, the readback requests   *)
(* issued, the crash mark).  Each                                          *)
(* step of the handler is an operator from such a record to the next one.  *)

Primitive(kind, cat, color, thickness, verts, indices, half, radius10, rot, nlines) ==
    [ kind      |-> kind,       \* "line", "box", "solidbox", "capsule", "mesh"
      cat       |-> cat,        \* the part of PostPhysTick that drew it
      color     |-> color,
      thickness |-> thickness,
      verts     |-> verts,      \* line: <<start, end>>; box: <<center, extent>>;
                                \* capsule: <<center>>; mesh: the vertices
      indices   |-> indices,    \* mesh: the triangle indices
      half      |-> half,       \* capsule: HalfHeight
      radius10  |-> radius10,   \* capsule: Radius, in tenths of a unit
      rot       |-> rot,        \* box: the rotation (yaw, degrees)
      nlines    |-> nlines ]    \* batched lines the call adds (box 12, capsule 68)

\* GetDebugLineBatcher: the batch a draw call writes to.
GetDebugLineBatcher(bPersistentLines) == IF bPersistentLines THEN "pers" ELSE "dyn"

AddToBatch_AnyNetMode(t, bPersistentLines, prim) ==
    [t EXCEPT ![GetDebugLineBatcher(bPersistentLines)] = Append(@, prim)]

\* The common frame of the DrawDebug* methods: nothing on a dedicated server,
\* otherwise the primitive goes to the batch GetDebugLineBatcher selects.
AddToBatch(t, bPersistentLines, prim) ==
    IF dedicatedServer THEN t
    ELSE [t EXCEPT ![GetDebugLineBatcher(bPersistentLines)] = Append(@, prim)]

DrawDebugLine(t, cat, LineStart, LineEnd, Color, bPersistentLines, Thickness) ==
    AddToBatch(t, bPersistentLines,
        Primitive("line", cat, Color, Thickness, <<LineStart, LineEnd>>, <<>>, 0, 0, 0, 1))

DrawDebugBox(t, cat, Center, Box, Rotation, Color, bPersistentLines, Thickness) ==
    AddToBatch(t, bPersistentLines,
        Primitive("box", cat, Color, Thickness, <<Center, Box>>, <<>>, 0, 0, Rotation, 12))

DrawDebugSolidBox(t, cat, Center, Extent, Rotation, Color, bPersistent) ==
    AddToBatch(t, bPersistent,
        Primitive("solidbox", cat, Color, 0, <<Center, Extent>>, <<>>, 0, 0, Rotation, 0))

DrawDebugMesh(t, cat, Vertices, Indices, Color, bPersistentLines) ==
    AddToBatch(t, bPersistentLines,
        Primitive("mesh", cat, Color, 0, Vertices, Indices, 0, 0, 0, 0))

\* DrawDebugCapsule: two circles of 16 sides, four half circles of 8, four lines,
\* each through DrawDebugLine.
CapsuleLines == 16 + 16 + 4 * 8 + 4

DrawDebugCapsule(t, cat, Center, HalfHeight, Radius10, Color, bPersistentLines, Thickness) ==
    AddToBatch(t, bPersistentLines,
        Primitive("capsule", cat, Color, Thickness, <<Center>>, <<>>,
                  HalfHeight, Radius10, 0, CapsuleLines))

LogStep(t, name) == [t EXCEPT !.steps = Append(@, name)]

----------------------------------------------------------------------------
(* PostPhysTick, first part: flush, then the pass over the mesh components *)

Flush_Keep(batch) == batch

\* DynamicLines->Flush()
Flush(batch) == <<>>

ClearDynamic(t) == LogStep([t EXCEPT !.dyn = Flush(t.dyn)], "ClearDynamic")

\* The registry loop: the actor of the first entry whose role_name contains
\* "hero" or "ego_vehicle"; 0 stands for nullptr.
RECURSIVE FindPlayerActor(_)
FindPlayerActor(registry) ==
    IF registry = <<>> THEN 0
    ELSE IF Head(registry).hero THEN Head(registry).actor
    ELSE FindPlayerActor(Tail(registry))

HeightLimit == 10000
PoleGroundLimit == 250
PoleRadius10 == 1

VehicleLabels == {"Car", "Bicycle", "Bus", "Motorcycle", "Pedestrians", "Train", "Truck"}

SkippedByFilter_AnyHeight(c, player_actor) ==
    \/ ~c.visible
    \/ c.owner = 0
    \/ c.owner = player_actor
    \/ (c.carlaActor /\ c.isVehicle /\ c.ignored)

\* The filters at the head of the loop body: TRUE when the component is skipped.
SkippedByFilter(c, player_actor) ==
    \/ ~c.visible
    \/ c.owner = 0
    \/ c.owner = player_actor
    \/ (c.carlaActor /\ c.isVehicle /\ c.ignored)
    \/ c.location[3] > HeightLimit

ComponentBounds_AssetRequired(c) ==
    LET actorBounds == [skip |-> FALSE, Origin |-> c.actorOrigin, BoxExtent |-> c.actorExtent]
    IN  IF c.kind = "static"
        THEN IF c.hasAsset
             THEN IF ~c.nameHasMesh \/ c.nameHasRoad
                  THEN [actorBounds EXCEPT !.skip = TRUE]
                  ELSE [skip |-> FALSE, Origin |-> c.actorOrigin, BoxExtent |-> c.meshExtent]
             ELSE [actorBounds EXCEPT !.skip = TRUE]
        ELSE IF c.kind = "skeletal"
        THEN IF c.hasAsset
             THEN [skip |-> FALSE,
                   Origin |-> VAdd(c.location, <<0, 0, c.meshExtent[3]>>),
                   BoxExtent |-> c.meshExtent]
             ELSE [actorBounds EXCEPT !.skip = TRUE]
        ELSE [actorBounds EXCEPT !.skip = TRUE]

\* The bounds the body derives: [skip, Origin, BoxExtent].
ComponentBounds(c) ==
    LET actorBounds == [skip |-> FALSE, Origin |-> c.actorOrigin, BoxExtent |-> c.actorExtent]
    IN  IF c.kind = "static"
        THEN IF c.hasAsset
             THEN IF ~c.nameHasMesh \/ c.nameHasRoad
                  THEN [actorBounds EXCEPT !.skip = TRUE]
                  ELSE [skip |-> FALSE, Origin |-> c.actorOrigin, BoxExtent |-> c.meshExtent]
             ELSE actorBounds
        ELSE IF c.kind = "skeletal"
        THEN IF c.hasAsset
             THEN [skip |-> FALSE,
                   Origin |-> VAdd(c.location, <<0, 0, c.meshExtent[3]>>),
                   BoxExtent |-> c.meshExtent]
             ELSE actorBounds
        ELSE [actorBounds EXCEPT !.skip = TRUE]

PoleGroundOffset_From250(distance_to_road) ==
    IF distance_to_road >= PoleGroundLimit THEN 0 ELSE distance_to_road

\* The ground offset added to the capsule half height of a pole.
PoleGroundOffset(distance_to_road) ==
    IF distance_to_road > PoleGroundLimit THEN 0 ELSE distance_to_road

DrawComponent_SolidBoxPersistent(t, c, bounds) ==
    LET vis_color == GetColorByTag(RenderConfig, c.tag)
    IN  IF c.tag \in {"TrafficLight", "TrafficSigns"}
        THEN DrawDebugSolidBox(t, "dynamic", c.location, bounds.BoxExtent, c.rot,
                               vis_color, TRUE)
        ELSE IF c.tag \in VehicleLabels
        THEN DrawDebugBox(t, "dynamic", bounds.Origin, bounds.BoxExtent, c.rot,
                          vis_color, FALSE, RenderConfig.VehicleBoxThickness)
        ELSE IF c.tag = "Poles"
        THEN LET half_height == Max2(bounds.BoxExtent[3], c.actorExtent[3])
                 distance_to_road == c.location[3]
             IN  DrawDebugCapsule(t, "dynamic",
                                  VAdd(c.location, <<0, 0, half_height>>),
                                  half_height + PoleGroundOffset(distance_to_road),
                                  PoleRadius10, vis_color, FALSE,
                                  RenderConfig.PoleThickness)
        ELSE t

\* The tag dispatch at the end of the loop body.
DrawComponent(t, c, bounds) ==
    LET vis_color == GetColorByTag(RenderConfig, c.tag)
    IN  IF c.tag \in {"TrafficLight", "TrafficSigns"}
        THEN DrawDebugSolidBox(t, "dynamic", c.location, bounds.BoxExtent, c.rot,
                               vis_color, FALSE)
        ELSE IF c.tag \in VehicleLabels
        THEN DrawDebugBox(t, "dynamic", bounds.Origin, bounds.BoxExtent, c.rot,
                          vis_color, FALSE, RenderConfig.VehicleBoxThickness)
        ELSE IF c.tag = "Poles"
        THEN LET half_height == Max2(bounds.BoxExtent[3], c.actorExtent[3])
                 distance_to_road == c.location[3]
             IN  DrawDebugCapsule(t, "dynamic",
                                  VAdd(c.location, <<0, 0, half_height>>),
                                  half_height + PoleGroundOffset(distance_to_road),
                                  PoleRadius10, vis_color, FALSE,
                                  RenderConfig.PoleThickness)
        ELSE t

RECURSIVE ComponentLoop(_, _, _)
ComponentLoop(t, comps, player_actor) ==
    IF comps = <<>> THEN t
    ELSE LET c == Head(comps)
             bounds == ComponentBounds(c)
             next == IF SkippedByFilter(c, player_actor) \/ bounds.skip THEN t
                     ELSE DrawComponent(t, c, bounds)
         IN  ComponentLoop(next, Tail(comps), player_actor)

AnnotateDynamicObjects(t) ==
    LogStep(ComponentLoop(t, meshComponents, FindPlayerActor(actorRegistry)),
            "AnnotateDynamicObjects")

----------------------------------------------------------------------------
(* PostPhysTick, second part: the stop lines                               *)

StopLineLateralOffset == 710
StopLineBuffer == 2

\* What a dereference of the null stop_box_collider can do: end the process, or
\* go on with whatever the read yields (modelled as a collider of zeros).
UBOutcomes == {"crash", "garbage"}

NullCollider == [location |-> <<0, 0, 0>>, extentX |-> 0,
                 forward |-> <<0, 0, 0>>, right |-> <<0, 0, 0>>]

\* The line of one traffic light, from its stop box collider.  StopLineThickness
\* is halved; the thickness values of the model are even, so the half is exact.
StopLineEnds(collider, thickness) ==
    LET stopLineOffset == (thickness \div 2) + StopLineBuffer
        base_pos == <<collider.location[1], collider.location[2], 0 - stopLineOffset>>
        side == VScale(0 - StopLineLateralOffset, collider.right)
    IN  << VAdd(VAdd(base_pos, VScale(0 - collider.extentX, collider.forward)), side),
           VAdd(VAdd(base_pos, VScale(collider.extentX, collider.forward)), side) >>

DrawStopLine(t, collider) ==
    LET ends == StopLineEnds(collider, RenderConfig.StopLineThickness)
    IN  DrawDebugLine(t, "stop_line", ends[1], ends[2], RenderConfig.WaitLinesColor,
                      TRUE, RenderConfig.StopLineThickness)

RECURSIVE TrafficLightLoop(_, _, _)
TrafficLightLoop(t, lights, ub) ==
    IF lights = <<>> THEN t
    ELSE LET traffic_light == Head(lights)
         IN  IF traffic_light.hasCollider
             THEN TrafficLightLoop(DrawStopLine(t, traffic_light.collider), Tail(lights), ub)
             ELSE IF ub = "crash"
                  THEN [t EXCEPT !.crashed = TRUE]
                  ELSE TrafficLightLoop(DrawStopLine(t, NullCollider), Tail(lights), ub)

StopLinesFlagAfter_WhenFound(found) == found > 0

\* The value written to added_persisted_stop_lines when the block is entered.
StopLinesFlagAfter(found) == TRUE

StopLinesPending_Always(flag) == TRUE

\* The guard of the stop line block.
StopLinesPending(flag) == ~flag

StopLines(t, ub) ==
    IF t.crashed \/ ~StopLinesPending(t.stop) THEN t
    ELSE TrafficLightLoop(
             LogStep([t EXCEPT !.stop = StopLinesFlagAfter(Len(trafficLights))], "StopLines"),
             trafficLights, ub)

----------------------------------------------------------------------------
(* PostPhysTick, third part: the road splines                              *)

RenderedBoundaryTypes == {"Driving", "Shoulder", "Sidewalk", "Median"}

NeighborLaneID_NoCentreStep(spline) ==
    spline.LaneID + (IF spline.OrientationType = "Left" THEN -1 ELSE 1)

\* The lane id the neighbour of a spline must have.
NeighborLaneID(spline) ==
    spline.LaneID +
        (IF spline.OrientationType = "Left"
         THEN (IF spline.LaneID = 1 THEN -2 ELSE -1)
         ELSE (IF spline.LaneID = -1 THEN 2 ELSE 1))

JunctionDecision_DrivingDrawn(spline, target, prev) ==
    IF target.BoundaryType \in {"Driving", "Shoulder"}
    THEN CASE spline.BoundaryType = "Driving"  -> TRUE
           [] spline.BoundaryType = "Shoulder" -> FALSE
           [] spline.BoundaryType = "Sidewalk" -> TRUE
           [] spline.BoundaryType = "Median"   -> TRUE
           [] OTHER -> prev
    ELSE FALSE

\* One pass of the body of the loop over found_splines: the new should_render.
JunctionDecision(spline, target, prev) ==
    IF target.BoundaryType \in {"Driving", "Shoulder"}
    THEN CASE spline.BoundaryType = "Driving"  -> FALSE
           [] spline.BoundaryType = "Shoulder" -> FALSE
           [] spline.BoundaryType = "Sidewalk" -> TRUE
           [] spline.BoundaryType = "Median"   -> TRUE
           [] OTHER -> prev
    ELSE FALSE

LeftDecision_NoProduct(spline, target, prev) ==
    LET sameSide == spline.LaneID > 0
    IN  IF target.BoundaryType = "Driving"
        THEN CASE spline.BoundaryType = "Driving"  -> sameSide
               [] spline.BoundaryType = "Shoulder" -> FALSE
               [] spline.BoundaryType = "Sidewalk" -> sameSide
               [] spline.BoundaryType = "Median"   -> TRUE
               [] OTHER -> prev
        ELSE IF target.BoundaryType = "Shoulder"
        THEN CASE spline.BoundaryType = "Driving"  -> FALSE
               [] spline.BoundaryType = "Shoulder" -> FALSE
               [] spline.BoundaryType = "Sidewalk" -> sameSide
               [] spline.BoundaryType = "Median"   -> TRUE
               [] OTHER -> prev
        ELSE FALSE

LeftDecision(spline, target, prev) ==
    LET sameSide == spline.LaneID > 0 /\ spline.LaneID * target.LaneID > 0
    IN  IF target.BoundaryType = "Driving"
        THEN CASE spline.BoundaryType = "Driving"  -> sameSide
               [] spline.BoundaryType = "Shoulder" -> FALSE
               [] spline.BoundaryType = "Sidewalk" -> sameSide
               [] spline.BoundaryType = "Median"   -> TRUE
               [] OTHER -> prev
        ELSE IF target.BoundaryType = "Shoulder"
        THEN CASE spline.BoundaryType = "Driving"  -> FALSE
               [] spline.BoundaryType = "Shoulder" -> FALSE
               [] spline.BoundaryType = "Sidewalk" -> sameSide
               [] spline.BoundaryType = "Median"   -> TRUE
               [] OTHER -> prev
        ELSE FALSE

RightDecision(spline, target, prev) ==
    IF target.BoundaryType = "Driving"
    THEN CASE spline.BoundaryType = "Driving"  -> spline.LaneID < 0
           [] spline.BoundaryType = "Shoulder" -> FALSE
           [] spline.BoundaryType = "Sidewalk" -> spline.LaneID < 0
           [] spline.BoundaryType = "Median"   -> TRUE
           [] OTHER -> prev
    ELSE IF target.BoundaryType = "Shoulder"
    THEN CASE spline.BoundaryType = "Driving"  -> FALSE
           [] spline.BoundaryType = "Shoulder" -> FALSE
           [] spline.BoundaryType = "Sidewalk" -> spline.LaneID < 0
           [] spline.BoundaryType = "Median"   -> TRUE
           [] OTHER -> prev
    ELSE FALSE

FoldDecision_FirstMatch(spline, found, prev) ==
    IF found = <<>> THEN prev
    ELSE LET target == Head(found)
         IN  IF spline.bIsJunction THEN JunctionDecision(spline, target, prev)
             ELSE IF spline.OrientationType = "Left"
                  THEN LeftDecision(spline, target, prev)
             ELSE IF spline.OrientationType = "Right"
                  THEN RightDecision(spline, target, prev)
             ELSE prev

RECURSIVE FoldDecision(_, _, _)
FoldDecision(spline, found, prev) ==
    IF found = <<>> THEN prev
    ELSE LET target == Head(found)
             now == IF spline.bIsJunction THEN JunctionDecision(spline, target, prev)
                    ELSE IF spline.OrientationType = "Left"
                         THEN LeftDecision(spline, target, prev)
                    ELSE IF spline.OrientationType = "Right"
                         THEN RightDecision(spline, target, prev)
                    ELSE prev
         IN  FoldDecision(spline, Tail(found), now)

\* should_render of a spline within the splines of its road.
ShouldRender(spline, group) ==
    LET wanted == NeighborLaneID(spline)
        found_splines == SelectSeq(group, LAMBDA in_spline : in_spline.LaneID = wanted)
    IN  FoldDecision(spline, found_splines, FALSE)

RECURSIVE SplineSegments(_, _, _)
SplineSegments(t, spline, i) ==
    IF i > Len(spline.points) - 1 THEN t
    ELSE LET offset == RenderConfig.RoadLineThickness
             p0 == VAdd(spline.points[i], <<0, 0, 0 - offset>>)
             p1 == VAdd(spline.points[i + 1], <<0, 0, 0 - offset>>)
             lineColor == IF spline.BoundaryType # "Driving"
                          THEN RenderConfig.RoadBoundariesColor
                          ELSE RenderConfig.LaneLinesColor
         IN  SplineSegments(
                 DrawDebugLine(t, "spline", p0, p1, lineColor, TRUE,
                               RenderConfig.RoadLineThickness),
                 spline, i + 1)

DrawSpline_FromSecondPoint(t, spline) ==
    IF Len(spline.points) < 2 THEN t ELSE SplineSegments(t, spline, 2)

\* The DrawSpline lambda.
DrawSpline(t, spline) ==
    IF Len(spline.points) < 2 THEN t ELSE SplineSegments(t, spline, 1)

\* SplinesByRoadId: the road ids in order of first appearance, and a road's splines.
RECURSIVE RoadIdOrder(_, _)
RoadIdOrder(splines, seen) ==
    IF splines = <<>> THEN seen
    ELSE RoadIdOrder(Tail(splines),
                     IF \E k \in 1..Len(seen) : seen[k] = Head(splines).RoadID
                     THEN seen ELSE Append(seen, Head(splines).RoadID))

SplinesOfRoad(splines, road) == SelectSeq(splines, LAMBDA s : s.RoadID = road)

RECURSIVE GroupLoop(_, _, _)
GroupLoop(t, group, rest) ==
    IF rest = <<>> THEN t
    ELSE LET spline == Head(rest)
             next == IF spline.BoundaryType \notin RenderedBoundaryTypes THEN t
                     ELSE IF ShouldRender(spline, group) THEN DrawSpline(t, spline)
                     ELSE t
         IN  GroupLoop(next, group, Tail(rest))

RECURSIVE RoadLoop(_, _)
RoadLoop(t, roads) ==
    IF roads = <<>> THEN t
    ELSE LET group == SplinesOfRoad(roadSplines, Head(roads))
         IN  RoadLoop(GroupLoop(t, group, group), Tail(roads))

RouteLinesFlagAfter_Unconditional(flag, found) == TRUE

\* The value of added_persisted_route_lines after the block looked for splines.
RouteLinesFlagAfter(flag, found) == IF found > 0 THEN TRUE ELSE flag

RouteLinesPending_Always(flag) == TRUE

\* The guard of the road spline block.
RouteLinesPending(flag) == ~flag

RouteLines(t) ==
    IF t.crashed \/ ~RouteLinesPending(t.route) THEN t
    ELSE RoadLoop(
             LogStep([t EXCEPT !.route = RouteLinesFlagAfter(t.route, Len(roadSplines))],
                     "RouteLines"),
             RoadIdOrder(roadSplines, <<>>))

----------------------------------------------------------------------------
(* PostPhysTick, fourth part: crosswalks and stencils                      *)

\* carla::geom::Location::ToFVector() * 100.0f: metres to world units.
ToFVector100(location) == VScale(100, location)

\* The "simple triangulation" loop: 0, j, j + 1 for j = 1 .. Num - 2.
RECURSIVE FanIndices(_, _)
FanIndices(num, j) ==
    IF j >= num - 1 THEN <<>>
    ELSE <<0, j, j + 1>> \o FanIndices(num, j + 1)

ClosePolygon_AtLeast2(t, current_polygon) ==
    IF Len(current_polygon) >= 2
    THEN DrawDebugMesh(t, "crosswalk", current_polygon,
                       FanIndices(Len(current_polygon), 1),
                       RenderConfig.CrosswalksColor, TRUE)
    ELSE t

ClosePolygon_MoreThan3(t, current_polygon) ==
    IF Len(current_polygon) > 3
    THEN DrawDebugMesh(t, "crosswalk", current_polygon,
                       FanIndices(Len(current_polygon), 1),
                       RenderConfig.CrosswalksColor, TRUE)
    ELSE t

\* What happens to current_polygon when its first point comes again.
ClosePolygon(t, current_polygon) ==
    IF Len(current_polygon) >= 3
    THEN DrawDebugMesh(t, "crosswalk", current_polygon,
                       FanIndices(Len(current_polygon), 1),
                       RenderConfig.CrosswalksColor, TRUE)
    ELSE t

RECURSIVE CrosswalkLoop_SentinelCompared(_, _, _, _, _)
CrosswalkLoop_SentinelCompared(t, points, i, first_in_loop, current_polygon) ==
    IF i >= Len(points) THEN t
    ELSE IF points[i + 1] = first_in_loop
         THEN LET closed == ClosePolygon(t, current_polygon)
              IN  IF i < Len(points) - 1
                  THEN CrosswalkLoop_SentinelCompared(closed, points, i + 1,
                                                      points[i + 2], <<>>)
                  ELSE CrosswalkLoop_SentinelCompared(closed, points, i + 1,
                                                      first_in_loop, <<>>)
         ELSE CrosswalkLoop_SentinelCompared(t, points, i + 1, first_in_loop,
                  Append(current_polygon, ToFVector100(points[i + 1])))

\* The loop "for (int i = 1; i < size; ++i)"; i is the source's 0-based index,
\* so the point it names is points[i + 1] here.
RECURSIVE CrosswalkLoop(_, _, _, _, _)
CrosswalkLoop(t, points, i, first_in_loop, current_polygon) ==
    IF i >= Len(points) THEN t
    ELSE IF points[i + 1] = first_in_loop
         THEN LET closed == ClosePolygon(t, current_polygon)
              IN  IF i < Len(points) - 1
                  THEN CrosswalkLoop(closed, points, i + 2, points[i + 2],
                                     <<ToFVector100(points[i + 2])>>)
                  ELSE CrosswalkLoop(closed, points, i + 1, first_in_loop, <<>>)
         ELSE CrosswalkLoop(t, points, i + 1, first_in_loop,
                            Append(current_polygon, ToFVector100(points[i + 1])))

DrawCrosswalks(t, points) ==
    IF Len(points) > 0
    THEN CrosswalkLoop(t, points, 1, points[1], <<ToFVector100(points[1])>>)
    ELSE t

OneTimeMapGuard_FlagOnly(flag, carla_game_mode) == ~flag

\* The guard of the crosswalk block and of the stencil block.
OneTimeMapGuard(flag, carla_game_mode) == ~flag /\ carla_game_mode

Crosswalks(t) ==
    IF t.crashed \/ ~OneTimeMapGuard(t.cw, gameMode) THEN t
    ELSE DrawCrosswalks(LogStep([t EXCEPT !.cw = TRUE], "Crosswalks"), crosswalkZones)

\* FQuat::RotateVector for the yaw angles of the model, 0 and 90 degrees.
RotateVector(yaw, v) == IF yaw = 90 THEN <<0 - v[2], v[1], v[3]>> ELSE v

StencilVertices(Stencil) ==
    LET StencilWidth  == Stencil.width * 100
        StencilLength == Stencil.length * 100
        hl == StencilLength \div 2
        hw == StencilWidth \div 2
        corner(x, y) == VAdd(Stencil.location, RotateVector(Stencil.yaw, <<x, y, 0>>))
    IN  << corner(0 - hl, 0 - hw), corner(hl, 0 - hw), corner(hl, hw), corner(0 - hl, hw) >>

StencilIndices == <<0, 1, 2, 0, 2, 3>>

RECURSIVE StencilLoop(_, _)
StencilLoop(t, stencils) ==
    IF stencils = <<>> THEN t
    ELSE LET Stencil == Head(stencils)
             next == IF ~Stencil.valid THEN t
                     ELSE DrawDebugMesh(t, "stencil", StencilVertices(Stencil),
                                        StencilIndices, RenderConfig.RoadMarkingsColor, TRUE)
         IN  StencilLoop(next, Tail(stencils))

Stencils_WithoutGameMode(t) ==
    IF t.crashed \/ t.st THEN t
    ELSE StencilLoop(LogStep([t EXCEPT !.st = TRUE], "Stencils"), roadStencils)

Stencils(t) ==
    IF t.crashed \/ ~OneTimeMapGuard(t.st, gameMode) THEN t
    ELSE StencilLoop(LogStep([t EXCEPT !.st = TRUE], "Stencils"), roadStencils)

SendPixels_Completed(t) ==
    IF t.crashed THEN t
    ELSE LogStep(t, "RequestPixelReadback")

\* FPixelReader::SendPixelsInRenderThread: queue the readback, do not wait.
SendPixels(t) ==
    IF t.crashed THEN t
    ELSE LogStep([t EXCEPT !.sent = @ + 1], "RequestPixelReadback")

TickResult_ReadbackFirst(t, ub) ==
    Stencils(Crosswalks(RouteLines(StopLines(
        AnnotateDynamicObjects(ClearDynamic(SendPixels(t))), ub))))

\* The body of PostPhysTick, top to bottom.
TickResult(t, ub) ==
    SendPixels(Stencils(Crosswalks(RouteLines(StopLines(
        AnnotateDynamicObjects(ClearDynamic(t)), ub)))))

----------------------------------------------------------------------------
(* Bounds and the finite sets the inputs are drawn from                    *)

MaxTrafficLights == 2
MaxRoadSplines == 2
MaxMeshComponents == 1
MaxPendingReadbacks == 2
MaxColorOverrides == 1
MaxPolygons == 2

\* Thickness numbers a file may give (even, see StopLineEnds).
ThicknessValues == {4, 12}

\* Arrays a file may give for a colour: a good one, and one of the wrong length.
ColorArrays == {<<10, 20, 30>>, <<10, 20>>}

ThicknessObjects == UNION {[S -> ThicknessValues] : S \in SUBSET ThicknessKeys}

ColorObjects ==
    UNION {[S -> ColorArrays] :
             S \in {T \in SUBSET ColorKeys : Cardinality(T) <= MaxColorOverrides}}

File(status, hasRoot, hasThickness, thickness, hasColors, colors) ==
    [status |-> status, hasRoot |-> hasRoot,
     hasThickness |-> hasThickness, thickness |-> thickness,
     hasColors |-> hasColors, colors |-> colors]

\* Files whose content is never looked at, one for each way of failing.
BrokenFiles ==
    {File(st, FALSE, FALSE, EmptyObject, FALSE, EmptyObject) :
        st \in {"missing", "unreadable", "unparsable"}}

\* A file that parses and has no "CosmosControlVisualization" object.
RootlessFile == File("ok", FALSE, FALSE, EmptyObject, FALSE, EmptyObject)

RootedFiles ==
    {File("ok", TRUE, FALSE, EmptyObject, FALSE, EmptyObject)}
    \cup {File("ok", TRUE, TRUE, th, FALSE, EmptyObject) : th \in ThicknessObjects}
    \cup {File("ok", TRUE, FALSE, EmptyObject, TRUE, co) : co \in ColorObjects}
    \cup {File("ok", TRUE, TRUE, th, TRUE, co) : th \in ThicknessObjects, co \in ColorObjects}

ConfigFiles == BrokenFiles \cup {RootlessFile} \cup RootedFiles

MissingFile == File("missing", FALSE, FALSE, EmptyObject, FALSE, EmptyObject)

\* Traffic lights.
Collider(location, extentX, forward, right) ==
    [location |-> location, extentX |-> extentX, forward |-> forward, right |-> right]

LightA == [hasCollider |-> TRUE,
           collider |-> Collider(<<1000, 0, 50>>, 200, <<1, 0, 0>>, <<0, 1, 0>>)]
LightB == [hasCollider |-> TRUE,
           collider |-> Collider(<<0, 2000, 50>>, 300, <<0, 1, 0>>, <<-1, 0, 0>>)]

LightPool == {LightA, LightB}

\* Road splines.
Spline(road, lane, boundary, orientation, junction, points) ==
    [RoadID |-> road, LaneID |-> lane, BoundaryType |-> boundary,
     OrientationType |-> orientation, bIsJunction |-> junction, points |-> points]

\* Lane 1 of road 1: its neighbour would be lane -1, which the pool lacks.
SplineLane1 == Spline(1, 1, "Driving", "Left", FALSE,
                      <<<<0, 0, 0>>, <<100, 0, 0>>, <<200, 0, 0>>>>)
\* Lane 2 of road 1: drawn when lane 1 is there.
SplineLane2 == Spline(1, 2, "Driving", "Left", FALSE,
                      <<<<0, 350, 0>>, <<100, 350, 0>>>>)

SplinePool == {SplineLane1, SplineLane2}

\* Mesh components.
Component(kind, hasAsset, tag, owner, location, meshExtent, actorExtent) ==
    [visible |-> TRUE, owner |-> owner,
     carlaActor |-> TRUE, isVehicle |-> FALSE, ignored |-> FALSE,
     location |-> location, kind |-> kind, hasAsset |-> hasAsset,
     nameHasMesh |-> TRUE, nameHasRoad |-> FALSE, tag |-> tag,
     meshExtent |-> meshExtent, actorOrigin |-> location, actorExtent |-> actorExtent,
     rot |-> 0]

CarComponent == Component("static", TRUE, "Car", 2, <<500, 0, 0>>, <<220, 90, 70>>, <<230, 95, 75>>)
PoleComponent == Component("static", TRUE, "Poles", 3, <<0, 500, 100>>, <<10, 10, 300>>, <<12, 12, 280>>)

ComponentPool == {CarComponent, PoleComponent}

\* One component for each label, for the colour checks.
TaggedComponent(tag) ==
    Component("static", TRUE, tag, 2, <<500, 0, 0>>, <<50, 50, 50>>, <<60, 60, 60>>)

HeroRegistry == <<[actor |-> 1, hero |-> TRUE]>>

\* Map data, in metres.
PA == <<0, 0, 0>>
PB == <<4, 0, 0>>
PC == <<4, 3, 0>>
PD == <<0, 3, 0>>
PE == <<9, 9, 0>>
PF == <<9, 5, 0>>

OneCrosswalk == <<PA, PB, PC, PA>>

OneStencil == <<[valid |-> TRUE, location |-> <<700, 0, 0>>, width |-> 2, length |-> 4,
                 yaw |-> 90]>>

----------------------------------------------------------------------------
(* Actions                                                                 *)

sensorVars == <<configured, RenderConfig, flagVars, DynamicLines, PersistentLines,
                pendingReadbacks, crashed>>

\* The state the constructor leaves, before Set.
Constructed ==
    /\ configured = FALSE
    /\ RenderConfig = DefaultRenderConfig
    /\ added_persisted_stop_lines = FALSE
    /\ added_persisted_route_lines = FALSE
    /\ added_persisted_crosswalks = FALSE
    /\ added_persisted_stencils = FALSE
    /\ DynamicLines = <<>>
    /\ PersistentLines = <<>>
    /\ steps = <<>>
    /\ pendingReadbacks = 0
    /\ crashed = FALSE

\* Set(Description): Super::Set, then LoadConfigFromFile.
Set ==
    /\ ~configured
    /\ configured' = TRUE
    /\ RenderConfig' = LoadConfigFromFile(RenderConfig, configFile)
    /\ steps' = <<>>
    /\ UNCHANGED <<configFile, flagVars, DynamicLines, PersistentLines,
                   pendingReadbacks, crashed, worldVars>>

PostPhysTick ==
    /\ configured
    /\ ~crashed
    /\ pendingReadbacks < MaxPendingReadbacks
    /\ \E ub \in UBOutcomes :
         LET t0 == [dyn |-> DynamicLines, pers |-> PersistentLines,
                    stop |-> added_persisted_stop_lines,
                    route |-> added_persisted_route_lines,
                    cw |-> added_persisted_crosswalks,
                    st |-> added_persisted_stencils,
                    steps |-> <<>>, sent |-> 0, crashed |-> FALSE]
             t == TickResult(t0, ub)
         IN  /\ DynamicLines' = t.dyn
             /\ PersistentLines' = t.pers
             /\ added_persisted_stop_lines' = t.stop
             /\ added_persisted_route_lines' = t.route
             /\ added_persisted_crosswalks' = t.cw
             /\ added_persisted_stencils' = t.st
             /\ steps' = t.steps
             /\ pendingReadbacks' = pendingReadbacks + t.sent
             /\ crashed' = t.crashed
    /\ UNCHANGED <<configFile, configured, RenderConfig, worldVars>>

\* The render thread runs one queued readback command.
RenderThread ==
    /\ pendingReadbacks > 0
    /\ pendingReadbacks' = pendingReadbacks - 1
    /\ UNCHANGED <<configFile, configured, RenderConfig, flagVars, DynamicLines,
                   PersistentLines, steps, crashed, worldVars>>

\* The world between two ticks.
SpawnTrafficLight ==
    /\ Len(trafficLights) < MaxTrafficLights
    /\ \E l \in LightPool \ Range(trafficLights) : trafficLights' = Append(trafficLights, l)
    /\ steps' = <<>>
    /\ UNCHANGED <<configFile, sensorVars, roadSplines, meshComponents, gameMode,
                   crosswalkZones, roadStencils, dedicatedServer, actorRegistry>>

SpawnRoadSpline ==
    /\ Len(roadSplines) < MaxRoadSplines
    /\ \E s \in SplinePool \ Range(roadSplines) : roadSplines' = Append(roadSplines, s)
    /\ steps' = <<>>
    /\ UNCHANGED <<configFile, sensorVars, trafficLights, meshComponents, gameMode,
                   crosswalkZones, roadStencils, dedicatedServer, actorRegistry>>

SpawnMeshComponent ==
    /\ Len(meshComponents) < MaxMeshComponents
    /\ \E c \in ComponentPool \ Range(meshComponents) :
         meshComponents' = Append(meshComponents, c)
    /\ steps' = <<>>
    /\ UNCHANGED <<configFile, sensorVars, trafficLights, roadSplines, gameMode,
                   crosswalkZones, roadStencils, dedicatedServer, actorRegistry>>

DestroyMeshComponent ==
    /\ meshComponents # <<>>
    /\ meshComponents' = Tail(meshComponents)
    /\ steps' = <<>>
    /\ UNCHANGED <<configFile, sensorVars, trafficLights, roadSplines, gameMode,
                   crosswalkZones, roadStencils, dedicatedServer, actorRegistry>>

GameModeAppears ==
    /\ ~gameMode
    /\ gameMode' = TRUE
    /\ steps' = <<>>
    /\ UNCHANGED <<configFile, sensorVars, trafficLights, roadSplines, meshComponents,
                   crosswalkZones, roadStencils, dedicatedServer, actorRegistry>>

----------------------------------------------------------------------------
(* The sensor in a changing world                                          *)

Init ==
    /\ Constructed
    /\ configFile = MissingFile
    /\ trafficLights = <<>>
    /\ roadSplines = <<>>
    /\ meshComponents = <<>>
    /\ gameMode \in BOOLEAN
    /\ crosswalkZones = OneCrosswalk
    /\ roadStencils = OneStencil
    /\ dedicatedServer = FALSE
    /\ actorRegistry = HeroRegistry

Next ==
    \/ Set
    \/ PostPhysTick
    \/ RenderThread
    \/ SpawnTrafficLight
    \/ SpawnRoadSpline
    \/ SpawnMeshComponent
    \/ DestroyMeshComponent
    \/ GameModeAppears

Spec == Init /\ [][Next]_vars

\* The engine calls PostPhysTick on every physics tick and the render thread
\* drains its command queue; nothing makes the world spawn anything.
FairSpec == Spec /\ WF_vars(Set) /\ WF_vars(PostPhysTick) /\ WF_vars(RenderThread)

----------------------------------------------------------------------------
(* Properties of the one-time annotators and of the tick                   *)

\* The primitives of a batch that one part of PostPhysTick drew.
PrimsOf(batch, cat) == SelectSeq(batch, LAMBDA p : p.cat = cat)

\* A step of the model that is a PostPhysTick call: it leaves a step log and,
\* unlike a step of the render thread, takes nothing off the readback queue.
TickStep == steps' # <<>> /\ pendingReadbacks' >= pendingReadbacks

Ran(log, name) == \E k \in 1..Len(log) : log[k] = name

\* Some spline of the world would be drawn by the spline block.
SomeSplineDrawable ==
    \E k \in 1..Len(roadSplines) :
        LET spline == roadSplines[k]
        IN  /\ spline.BoundaryType \in RenderedBoundaryTypes
            /\ Len(spline.points) >= 2
            /\ ShouldRender(spline, SplinesOfRoad(roadSplines, spline.RoadID))

\* Once a flag is true its category gets no further primitive.
NoLaterDraw ==
    /\ added_persisted_stop_lines =>
         PrimsOf(PersistentLines', "stop_line") = PrimsOf(PersistentLines, "stop_line")
    /\ added_persisted_route_lines =>
         PrimsOf(PersistentLines', "spline") = PrimsOf(PersistentLines, "spline")
    /\ added_persisted_crosswalks =>
         PrimsOf(PersistentLines', "crosswalk") = PrimsOf(PersistentLines, "crosswalk")
    /\ added_persisted_stencils =>
         PrimsOf(PersistentLines', "stencil") = PrimsOf(PersistentLines, "stencil")

\* C1 as stated: for each of the four categories, a tick that checks the flag
\* while the category's sources are absent (no traffic light, no road spline, no
\* game mode to give the map) sets the flag all the same, and the category is
\* never drawn afterwards.
C1_FlagSetWithoutSources ==
    [][ /\ TickStep =>
             /\ (~added_persisted_stop_lines /\ trafficLights = <<>>)
                    => added_persisted_stop_lines'
             /\ (~added_persisted_route_lines /\ roadSplines = <<>>)
                    => added_persisted_route_lines'
             /\ (~added_persisted_crosswalks /\ ~gameMode)
                    => added_persisted_crosswalks'
             /\ (~added_persisted_stencils /\ ~gameMode)
                    => added_persisted_stencils'
        /\ NoLaterDraw ]_vars

\* C1 amended: only the stop line flag is set on a tick that finds no source
\* (and lights spawned later get no stop line).  The route line flag stays false
\* on a tick that finds no spline and the splines are drawn, and the flag set, on
\* the first tick that finds one; the crosswalk and stencil flags stay false on a
\* tick without game mode and are set, their category drawn, on the first tick
\* with one.
C1_OnlyStopLinesSkipForever ==
    [][ TickStep =>
          /\ added_persisted_stop_lines'
          /\ (~added_persisted_stop_lines /\ trafficLights = <<>>)
                 => PrimsOf(PersistentLines', "stop_line") = <<>>
          /\ added_persisted_stop_lines =>
                 PrimsOf(PersistentLines', "stop_line") = PrimsOf(PersistentLines, "stop_line")
          /\ (~added_persisted_route_lines /\ roadSplines = <<>>)
                 => /\ ~added_persisted_route_lines'
                    /\ PrimsOf(PersistentLines', "spline") = <<>>
          /\ (~added_persisted_route_lines /\ roadSplines # <<>>)
                 => /\ added_persisted_route_lines'
                    /\ (SomeSplineDrawable /\ ~dedicatedServer)
                           => PrimsOf(PersistentLines', "spline") # <<>>
          /\ (~added_persisted_crosswalks /\ ~gameMode)
                 => /\ ~added_persisted_crosswalks'
                    /\ PrimsOf(PersistentLines', "crosswalk") = <<>>
          /\ (~added_persisted_crosswalks /\ gameMode)
                 => /\ added_persisted_crosswalks'
                    /\ Ran(steps', "Crosswalks")
          /\ (~added_persisted_stencils /\ ~gameMode)
                 => /\ ~added_persisted_stencils'
                    /\ PrimsOf(PersistentLines', "stencil") = <<>>
          /\ (~added_persisted_stencils /\ gameMode)
                 => /\ added_persisted_stencils'
                    /\ Ran(steps', "Stencils") ]_vars

\* A tick later than the first drew the splines that were absent before, while
\* the traffic lights that came after the first tick have no stop line.
C1_Witness ==
    /\ steps # <<>>
    /\ ~Ran(steps, "StopLines")
    /\ Ran(steps, "RouteLines")
    /\ added_persisted_route_lines
    /\ PrimsOf(PersistentLines, "spline") # <<>>
    /\ trafficLights # <<>>
    /\ PrimsOf(PersistentLines, "stop_line") = <<>>

AllFlagsFalse ==
    /\ ~added_persisted_stop_lines
    /\ ~added_persisted_route_lines
    /\ ~added_persisted_crosswalks
    /\ ~added_persisted_stencils

NeverReset ==
    /\ added_persisted_stop_lines => added_persisted_stop_lines'
    /\ added_persisted_route_lines => added_persisted_route_lines'
    /\ added_persisted_crosswalks => added_persisted_crosswalks'
    /\ added_persisted_stencils => added_persisted_stencils'

\* C2 as stated: the four flags start false, none is ever reset, and each of
\* them does change to true in the sensor's lifetime.
C2_EachFlagSetExactlyOnce ==
    <>[](/\ added_persisted_stop_lines
         /\ added_persisted_route_lines
         /\ added_persisted_crosswalks
         /\ added_persisted_stencils)

\* C2 amended: the four flags start false and none is ever reset, so each changes
\* at most once; the stop line flag does change, on the first tick; the other
\* three change only on a tick that finds a road spline, respectively a game mode.
C2_FlagsSetAtMostOnce ==
    [][ /\ ~configured => AllFlagsFalse
        /\ NeverReset
        /\ TickStep => added_persisted_stop_lines'
        /\ (~added_persisted_route_lines /\ added_persisted_route_lines')
               => (TickStep /\ roadSplines # <<>>)
        /\ (~added_persisted_crosswalks /\ added_persisted_crosswalks')
               => (TickStep /\ gameMode)
        /\ (~added_persisted_stencils /\ added_persisted_stencils')
               => (TickStep /\ gameMode) ]_vars

\* Ticks have run, the last of them just now, and only the stop line flag is set.
C2_Witness ==
    /\ steps # <<>>
    /\ ~Ran(steps, "StopLines")
    /\ added_persisted_stop_lines
    /\ ~added_persisted_route_lines
    /\ ~added_persisted_crosswalks
    /\ ~added_persisted_stencils

\* C3: a tick that starts with a category's flag true adds no primitive of that
\* category to the persistent batch, whatever the world holds by then.
C3_OneShot == [][TickStep => NoLaterDraw]_vars

\* The stop line a traffic light would get.
StopLineOf(light) ==
    LET ends == StopLineEnds(light.collider, RenderConfig.StopLineThickness)
    IN  <<ends[1], ends[2]>>

\* A tick that began with the stop line flag true has run in a world with a
\* traffic light, and that light has no stop line.
C3_Witness ==
    /\ steps # <<>>
    /\ ~Ran(steps, "StopLines")
    /\ added_persisted_stop_lines
    /\ \E k \in 1..Len(trafficLights) :
         \A j \in 1..Len(PersistentLines) :
            PersistentLines[j].verts # StopLineOf(trafficLights[k])

\* The steps a tick has to log, given the flags and the game mode it starts with.
ExpectedSteps ==
    <<"ClearDynamic", "AnnotateDynamicObjects">>
    \o (IF ~added_persisted_stop_lines THEN <<"StopLines">> ELSE <<>>)
    \o (IF ~added_persisted_route_lines THEN <<"RouteLines">> ELSE <<>>)
    \o (IF ~added_persisted_crosswalks /\ gameMode THEN <<"Crosswalks">> ELSE <<>>)
    \o (IF ~added_persisted_stencils /\ gameMode THEN <<"Stencils">> ELSE <<>>)
    \o <<"RequestPixelReadback">>

EmittedDynamic ==
    ComponentLoop([dyn |-> <<>>, pers |-> <<>>], meshComponents,
                  FindPlayerActor(actorRegistry)).dyn

\* C5: after a tick the dynamic batch holds the primitives of that tick and no
\* other; the persistent batch only ever grows at its end.
C5_Batches ==
    [][ /\ IsPrefix(PersistentLines, PersistentLines')
        /\ TickStep => /\ DynamicLines' = EmittedDynamic
                       /\ PrimsOf(PersistentLines', "dynamic") = <<>> ]_vars

\* A tick later than the first left one primitive in the dynamic batch, that of
\* the component now in the world, beside a persistent batch that kept its lines.
C5_Witness ==
    /\ steps # <<>>
    /\ ~Ran(steps, "StopLines")
    /\ Len(meshComponents) = 1
    /\ Len(DynamicLines) = 1
    /\ PersistentLines # <<>>

\* C6 as stated: a tick without game mode skips crosswalks and stencils, and no
\* later tick runs them.  A state with the stop line flag true and the crosswalk
\* flag false comes after such a tick (every tick sets the first, and every tick
\* with a game mode the second), so a tick from it must not run either block.
C6_NoRetryAfterMissingGameMode ==
    [][ TickStep =>
          /\ ~gameMode => (~Ran(steps', "Crosswalks") /\ ~Ran(steps', "Stencils"))
          /\ (added_persisted_stop_lines /\ ~added_persisted_crosswalks)
                 => ~Ran(steps', "Crosswalks")
          /\ (added_persisted_stop_lines /\ ~added_persisted_stencils)
                 => ~Ran(steps', "Stencils") ]_vars

\* C6 amended: a tick without game mode skips the crosswalk and the stencil block
\* without failing and leaves their flags false and their categories undrawn; the
\* first later tick that finds a game mode runs both blocks and sets both flags.
C6_RetryUntilGameMode ==
    [][ TickStep =>
          /\ ~crashed'
          /\ Ran(steps', "RequestPixelReadback")
          /\ ~gameMode =>
               /\ ~Ran(steps', "Crosswalks") /\ ~Ran(steps', "Stencils")
               /\ added_persisted_crosswalks' = added_persisted_crosswalks
               /\ added_persisted_stencils' = added_persisted_stencils
               /\ PrimsOf(PersistentLines', "crosswalk") = PrimsOf(PersistentLines, "crosswalk")
               /\ PrimsOf(PersistentLines', "stencil") = PrimsOf(PersistentLines, "stencil")
          /\ (gameMode /\ ~added_persisted_crosswalks) =>
               /\ Ran(steps', "Crosswalks")
               /\ added_persisted_crosswalks'
               /\ PrimsOf(PersistentLines', "crosswalk") # <<>>
          /\ (gameMode /\ ~added_persisted_stencils) =>
               /\ Ran(steps', "Stencils")
               /\ added_persisted_stencils'
               /\ PrimsOf(PersistentLines', "stencil") # <<>> ]_vars

\* A tick later than the first ran the crosswalk and the stencil block.
C6_Witness ==
    /\ steps # <<>>
    /\ ~Ran(steps, "StopLines")
    /\ Ran(steps, "Crosswalks")
    /\ Ran(steps, "Stencils")
    /\ PrimsOf(PersistentLines, "crosswalk") # <<>>
    /\ PrimsOf(PersistentLines, "stencil") # <<>>

----------------------------------------------------------------------------
(* The sensor over the configuration files                                 *)

InitConfig ==
    /\ Constructed
    /\ configFile \in ConfigFiles
    /\ trafficLights = <<LightA>>
    /\ roadSplines = <<>>
    /\ meshComponents = <<>>
    /\ gameMode = FALSE
    /\ crosswalkZones = OneCrosswalk
    /\ roadStencils = OneStencil
    /\ dedicatedServer = FALSE
    /\ actorRegistry = HeroRegistry

NextConfig ==
    \/ Set
    \/ PostPhysTick
    \/ RenderThread

ConfigSpec == InitConfig /\ [][NextConfig]_vars

\* The RenderConfig field a key of the file stands for.
ThicknessField ==
    [k \in ThicknessKeys |->
        CASE k = "road_lines"    -> "RoadLineThickness"
          [] k = "vehicle_boxes" -> "VehicleBoxThickness"
          [] k = "poles"         -> "PoleThickness"
          [] k = "stop_lines"    -> "StopLineThickness"]

ColorField ==
    [k \in ColorKeys |->
        CASE k = "lane_lines"      -> "LaneLinesColor"
          [] k = "road_boundaries" -> "RoadBoundariesColor"
          [] k = "crosswalks"      -> "CrosswalksColor"
          [] k = "road_markings"   -> "RoadMarkingsColor"
          [] k = "traffic_signs"   -> "TrafficSignsColor"
          [] k = "traffic_lights"  -> "TrafficLightsColor"
          [] k = "cars"            -> "CarsColor"
          [] k = "trucks"          -> "TrucksColor"
          [] k = "pedestrians"     -> "PedestriansColor"
          [] k = "cyclists"        -> "CyclistsColor"
          [] k = "poles"           -> "PolesColor"]

FileMentionsThickness(k) ==
    configFile.hasRoot /\ configFile.hasThickness /\ k \in DOMAIN configFile.thickness

FileMentionsColor(k) ==
    configFile.hasRoot /\ configFile.hasColors /\ k \in DOMAIN configFile.colors

\* C8: after LoadConfigFromFile has read a file that parses, every RenderConfig
\* field the file does not mention, thickness or colour, holds its default.
C8_PartialOverride ==
    (configured /\ configFile.status = "ok" /\ configFile.hasRoot) =>
        /\ \A k \in ThicknessKeys :
              ~FileMentionsThickness(k) =>
                  RenderConfig[ThicknessField[k]] = DefaultRenderConfig[ThicknessField[k]]
        /\ \A k \in ColorKeys :
              ~FileMentionsColor(k) =>
                  RenderConfig[ColorField[k]] = DefaultRenderConfig[ColorField[k]]
        /\ RenderConfig.WaitLinesColor = DefaultRenderConfig.WaitLinesColor

\* C9: a file that is missing, unreadable, unparsable or without the top-level
\* "CosmosControlVisualization" object leaves every RenderConfig field at its
\* default, and the sensor goes on to tick.
C9_DefaultsKept ==
    (configured /\ (configFile.status # "ok" \/ ~configFile.hasRoot)) =>
        /\ RenderConfig = DefaultRenderConfig
        /\ ~crashed

----------------------------------------------------------------------------
(* The sensor over the labels and the colour overrides                     *)

ColorFiles ==
    {MissingFile} \cup {File("ok", TRUE, FALSE, EmptyObject, TRUE, co) : co \in ColorObjects}

\* With a "LineThickness" object that names all four thicknesses.
FullThickness == [k \in ThicknessKeys |-> 12]

InitColor ==
    /\ Constructed
    /\ configFile \in {IF f.status = "ok" THEN [f EXCEPT !.hasThickness = TRUE,
                                                        !.thickness = FullThickness]
                       ELSE f : f \in ColorFiles}
    /\ trafficLights = <<>>
    /\ roadSplines = <<>>
    /\ meshComponents \in {<<TaggedComponent(tag)>> : tag \in CityObjectLabel}
    /\ gameMode = FALSE
    /\ crosswalkZones = OneCrosswalk
    /\ roadStencils = OneStencil
    /\ dedicatedServer = FALSE
    /\ actorRegistry = HeroRegistry

NextColor ==
    \/ Set
    \/ PostPhysTick
    \/ RenderThread

ColorSpec == InitColor /\ [][NextColor]_vars

\* The colour category of a named label, as the key the file uses for it.
LabelKey ==
    [tag \in NamedLabels |->
        CASE tag = "TrafficLight" -> "traffic_lights"
          [] tag = "TrafficSigns" -> "traffic_signs"
          [] tag = "Poles"        -> "poles"
          [] tag = "Car"          -> "cars"
          [] tag = "Bus"          -> "cars"
          [] tag = "Motorcycle"   -> "cars"
          [] tag = "Train"        -> "cars"
          [] tag = "Truck"        -> "trucks"
          [] tag = "Bicycle"      -> "cyclists"
          [] tag = "Pedestrians"  -> "pedestrians"]

\* The colour configured for a key: the file's, when the file has been loaded and
\* gives a 3-element array for it, else the built-in default.
ConfiguredColor(k) ==
    IF configured /\ FileMentionsColor(k) /\ Len(configFile.colors[k]) = 3
    THEN configFile.colors[k]
    ELSE DefaultRenderConfig[ColorField[k]]

\* C7: GetColorByTag returns, for each label of the closed enumeration, the
\* configured colour of the label's category (Bus, Motorcycle and Train sharing
\* the cars colour) and white for any other label; the primitive the dynamic pass
\* draws for a component has that colour.
C7_ColorByTag ==
    /\ \A tag \in NamedLabels :
          GetColorByTag(RenderConfig, tag) = ConfiguredColor(LabelKey[tag])
    /\ \A tag \in CityObjectLabel \ NamedLabels :
          GetColorByTag(RenderConfig, tag) = White
    /\ \A k \in 1..Len(DynamicLines) :
          DynamicLines[k].color = ConfiguredColor(LabelKey[meshComponents[1].tag])

\* A Bus component was drawn in the cars colour the file gave.
C7_Witness ==
    /\ configured
    /\ FileMentionsColor("cars")
    /\ meshComponents[1].tag = "Bus"
    /\ Len(DynamicLines) = 1
    /\ DynamicLines[1].color = <<10, 20, 30>>

----------------------------------------------------------------------------
(* The sensor over the crosswalk zones of the map                          *)

\* The polygons a map may have; a polygon is the sequence of its vertices.
PolygonPool ==
    { <<PA, PB, PC>>, <<PD, PE, PF>>, <<PA, PB, PC, PD>>, <<PB, PA>>, <<PE>>,
      <<PC, PD, PA>>, <<PB, PE, PE>> }

PolygonLists == SeqsUpTo(PolygonPool, MaxPolygons)

\* The flat sequence of a list of polygons: each polygon's vertices, then its
\* first vertex again.
RECURSIVE Flatten(_)
Flatten(polys) ==
    IF polys = <<>> THEN <<>>
    ELSE Head(polys) \o <<Head(polys)[1]>> \o Flatten(Tail(polys))

InitCrosswalk ==
    /\ Constructed
    /\ configFile = MissingFile
    /\ trafficLights = <<>>
    /\ roadSplines = <<>>
    /\ meshComponents = <<>>
    /\ gameMode = TRUE
    /\ crosswalkZones \in {Flatten(polys) : polys \in PolygonLists}
    /\ roadStencils = <<>>
    /\ dedicatedServer = FALSE
    /\ actorRegistry = HeroRegistry

NextCrosswalk ==
    \/ Set
    \/ PostPhysTick
    \/ RenderThread

CrosswalkSpec == InitCrosswalk /\ [][NextCrosswalk]_vars

\* The mesh of a polygon of n vertices: the vertices in world units and the
\* triangles (0, j, j + 1), j = 1 .. n - 2.
FanOf(n) ==
    [k \in 1..(3 * (n - 2)) |->
        LET j == ((k - 1) \div 3) + 1
        IN  CASE k % 3 = 1 -> 0
              [] k % 3 = 2 -> j
              [] OTHER     -> j + 1]

MeshOf(poly) ==
    [verts |-> [k \in 1..Len(poly) |-> VScale(100, poly[k])], indices |-> FanOf(Len(poly))]

ExpectedMeshes(polys) ==
    LET drawn == SelectSeq(polys, LAMBDA poly : Len(poly) >= 3)
    IN  [k \in 1..Len(drawn) |-> MeshOf(drawn[k])]

DrawnMeshes ==
    LET meshes == PrimsOf(PersistentLines, "crosswalk")
    IN  [k \in 1..Len(meshes) |-> [verts |-> meshes[k].verts, indices |-> meshes[k].indices]]

\* C10: when the flat sequence is that of a list of closed polygons, the meshes
\* drawn, from the tick that sets the crosswalk flag on, are exactly those of the
\* polygons of 3 or more vertices, in order, each once, with n - 2 triangles
\* fanned from vertex 0.
C10_CrosswalkSplit ==
    added_persisted_crosswalks =>
        \A polys \in PolygonLists :
            Flatten(polys) = crosswalkZones =>
                /\ DrawnMeshes = ExpectedMeshes(polys)
                /\ \A k \in 1..Len(DrawnMeshes) :
                      Len(DrawnMeshes[k].indices) = 3 * (Len(DrawnMeshes[k].verts) - 2)

\* [A,B,C,A,D,E,F,D] gave the two triangles {A,B,C} and {D,E,F}.
C10_Witness ==
    /\ crosswalkZones = <<PA, PB, PC, PA, PD, PE, PF, PD>>
    /\ added_persisted_crosswalks
    /\ Ran(steps, "RequestPixelReadback")
    /\ ~Ran(steps, "Crosswalks")
    /\ DrawnMeshes = << [verts |-> <<<<0, 0, 0>>, <<400, 0, 0>>, <<400, 300, 0>>>>,
                         indices |-> <<0, 1, 2>>],
                        [verts |-> <<<<0, 300, 0>>, <<900, 900, 0>>, <<900, 500, 0>>>>,
                         indices |-> <<0, 1, 2>>] >>

----------------------------------------------------------------------------
(* Degenerate crosswalk runs                                               *)

\* The list without its k-th polygon, as meshes.
MeshesWithout(polys, k) ==
    ExpectedMeshes(SubSeq(polys, 1, k - 1)) \o
    ExpectedMeshes(SubSeq(polys, k + 1, Len(polys)))

\* C11 as stated: a run with fewer than 3 distinct vertices before its repeated
\* first vertex draws no mesh, and the other runs are drawn as if it were absent.
C11_FewerThan3DistinctDropped ==
    added_persisted_crosswalks =>
        \A polys \in PolygonLists :
            Flatten(polys) = crosswalkZones =>
                \A k \in 1..Len(polys) :
                    Cardinality(Range(polys[k])) < 3 =>
                        DrawnMeshes = MeshesWithout(polys, k)

\* C11, amended: a run with fewer than 3 vertices (counted as listed) before
\* its repeated first vertex draws no mesh and no triangle, and the runs before
\* and after it are split and drawn as if it were absent.
C11_FewerThan3ListedDropped ==
    added_persisted_crosswalks =>
        \A polys \in PolygonLists :
            Flatten(polys) = crosswalkZones =>
                \A k \in 1..Len(polys) :
                    Len(polys[k]) < 3 =>
                        DrawnMeshes = MeshesWithout(polys, k)

\* [B,A,B,D,E,F,D] gave the one triangle {D,E,F}.
C11_Witness ==
    /\ crosswalkZones = <<PB, PA, PB, PD, PE, PF, PD>>
    /\ added_persisted_crosswalks
    /\ Ran(steps, "Crosswalks")
    /\ DrawnMeshes = << [verts |-> <<<<0, 300, 0>>, <<900, 900, 0>>, <<900, 500, 0>>>>,
                         indices |-> <<0, 1, 2>>] >>

----------------------------------------------------------------------------
(* The sensor over the road splines of the map                             *)

\* (boundary kind, orientation, junction flag, number of spline points) a
\* spline of the map may have; "Other" is any kind outside the four rendered.
SplineShapes ==
    << <<"Driving",  "Left",  FALSE, 3>>,
       <<"Driving",  "Right", FALSE, 3>>,
       <<"Sidewalk", "Left",  FALSE, 2>>,
       <<"Median",   "Right", TRUE,  1>>,
       <<"Other",    "Left",  FALSE, 2>>,
       <<"Shoulder", "Right", FALSE, 0>> >>

\* The points of a spline: no two splines of the map share a point.
SplinePoints(road, lane, shape, n) ==
    [i \in 1..n |-> <<100 * i, 5000 * road + 350 * lane + shape, 0>>]

SplineOfShape(road, lane, shape) ==
    Spline(road, lane, SplineShapes[shape][1], SplineShapes[shape][2],
           SplineShapes[shape][3],
           SplinePoints(road, lane, shape, SplineShapes[shape][4]))

LaneIDs == {-2, -1, 0, 1, 2}

MapSplines ==
    {SplineOfShape(1, lane, shape) : lane \in LaneIDs, shape \in 1..Len(SplineShapes)}
    \cup {SplineOfShape(2, lane, shape) : lane \in {-1, 0, 2}, shape \in {1, 2}}

\* A file that sets the thicknesses and the two colours of the splines.
SplineFile ==
    File("ok", TRUE, TRUE, [k \in ThicknessKeys |-> 12],
         TRUE, [k \in {"lane_lines", "road_boundaries"} |->
                   IF k = "lane_lines" THEN <<10, 20, 30>> ELSE <<40, 50, 60>>])

InitSpline ==
    /\ Constructed
    /\ configFile \in {MissingFile, SplineFile}
    /\ trafficLights = <<>>
    /\ roadSplines \in SeqsUpTo(MapSplines, MaxRoadSplines)
    /\ meshComponents = <<>>
    /\ gameMode = FALSE
    /\ crosswalkZones = <<>>
    /\ roadStencils = <<>>
    /\ dedicatedServer = FALSE
    /\ actorRegistry = HeroRegistry

NextSpline ==
    \/ Set
    \/ PostPhysTick
    \/ RenderThread

SplineSpec == InitSpline /\ [][NextSpline]_vars

SplinePrims == PrimsOf(PersistentLines, "spline")

\* A spline of two or more points has been drawn: its first segment is in the
\* persistent batch.
Drawn(s) ==
    /\ Len(s.points) >= 2
    /\ \E k \in 1..Len(SplinePrims) :
          /\ SplinePrims[k].verts[1][1] = s.points[1][1]
          /\ SplinePrims[k].verts[1][2] = s.points[1][2]

\* The splines of the map on the road of s with lane id lane.
OnRoadWithLane(s, lane) ==
    {k \in 1..Len(roadSplines) :
        roadSplines[k].RoadID = s.RoadID /\ roadSplines[k].LaneID = lane}

LeftDrivingLane(s, lane) ==
    /\ ~s.bIsJunction
    /\ s.OrientationType = "Left"
    /\ s.BoundaryType = "Driving"
    /\ s.LaneID = lane

\* C12 as stated: a non-junction left-oriented Driving spline of lane +1 is
\* rendered when a Driving spline of lane +2 is on its road, and not rendered
\* when the Driving spline on its road has lane -1.
C12_Lane1RenderedNextToLane2 ==
    added_persisted_route_lines =>
        \A i \in 1..Len(roadSplines) :
            LET s == roadSplines[i]
            IN  LeftDrivingLane(s, 1) =>
                  /\ (/\ \E k \in OnRoadWithLane(s, 2) :
                            roadSplines[k].BoundaryType = "Driving"
                      /\ OnRoadWithLane(s, -1) = {})
                     => Drawn(s)
                  /\ (\E k \in OnRoadWithLane(s, -1) :
                            roadSplines[k].BoundaryType = "Driving")
                     => ~Drawn(s)

\* C12, amended: the neighbour looked up for a non-junction left-oriented
\* Driving spline of lane +1 is lane -1, so it is never rendered, with a lane +2
\* or a lane -1 Driving spline on its road or with neither; the product rule
\* renders a non-junction left-oriented Driving spline of lane +2 whose lane +1
\* neighbours are all Driving.
C12_Lane1NeverLane2NextToLane1 ==
    added_persisted_route_lines =>
        \A i \in 1..Len(roadSplines) :
            LET s == roadSplines[i]
            IN  /\ LeftDrivingLane(s, 1) => ~Drawn(s)
                /\ (/\ LeftDrivingLane(s, 2)
                    /\ OnRoadWithLane(s, 1) # {}
                    /\ \A k \in OnRoadWithLane(s, 1) :
                          roadSplines[k].BoundaryType = "Driving")
                   => Drawn(s)

\* Lanes +1 and +2 of road 1, both left-oriented Driving: after the tick that
\* drew the splines only the two segments of lane +2 are in the batch.
C12_Witness ==
    /\ roadSplines = <<SplineOfShape(1, 1, 1), SplineOfShape(1, 2, 1)>>
    /\ added_persisted_route_lines
    /\ Ran(steps, "RouteLines")
    /\ Len(SplinePrims) = 2
    /\ Drawn(roadSplines[2])
    /\ ~Drawn(roadSplines[1])

----------------------------------------------------------------------------
(* The sensor over the mesh components of the scene                        *)

\* Heights a component may be at, around the two thresholds of the pass.
ComponentHeights == {-50, 0, 100, 250, 251, 300, 10000, 10001}

\* A component of the given kind, asset, tag and height, owned by actor 2, whose
\* bounds are centred a little off the component.
ComponentAt(kind, hasAsset, tag, z) ==
    [Component(kind, hasAsset, tag, 2, <<500, 40, z>>, <<50, 60, 70>>, <<55, 65, 80>>)
        EXCEPT !.actorOrigin = <<510, 45, z + 5>>]

\* Every kind, asset and tag, below and above the pole threshold.
DispatchComponents ==
    {ComponentAt(kind, hasAsset, tag, z) :
        kind \in {"static", "skeletal", "other"}, hasAsset \in BOOLEAN,
        tag \in CityObjectLabel, z \in {100, 300}}

\* Every way of meeting or failing the filters at the head of the loop body.
\* who is (the owner is a CARLA actor, it is a vehicle, it is in IgnoredVehicles);
\* the list holds ids of vehicles.
FilterComponents ==
    {[ComponentAt("static", TRUE, tag, z) EXCEPT
          !.visible = visible, !.owner = owner, !.carlaActor = who[1],
          !.isVehicle = who[2], !.ignored = who[3]] :
        tag \in {"Car", "Poles", "TrafficLight"}, z \in {100, 10000, 10001},
        visible \in BOOLEAN, owner \in {0, 1, 2},
        who \in {<<TRUE, TRUE, TRUE>>, <<TRUE, TRUE, FALSE>>,
                 <<TRUE, FALSE, FALSE>>, <<FALSE, FALSE, FALSE>>}}

\* Poles at every height, with the mesh or the actor the taller.
PoleComponents ==
    {[ComponentAt(kind, hasAsset, "Poles", z) EXCEPT !.actorExtent = <<55, 65, az>>] :
        kind \in {"static", "skeletal"}, hasAsset \in BOOLEAN,
        z \in ComponentHeights, az \in {60, 80}}

\* Static meshes by what their name contains.
NamedComponents ==
    {[ComponentAt("static", hasAsset, tag, 100) EXCEPT
          !.nameHasMesh = names[1], !.nameHasRoad = names[2]] :
        hasAsset \in BOOLEAN, tag \in {"Car", "Poles", "TrafficSigns"},
        names \in {<<TRUE, FALSE>>, <<FALSE, FALSE>>, <<TRUE, TRUE>>}}

SceneComponents ==
    DispatchComponents \cup FilterComponents \cup PoleComponents \cup NamedComponents

\* A file that sets every thickness.
ThicknessFile ==
    File("ok", TRUE, TRUE, [k \in ThicknessKeys |-> 12], FALSE, EmptyObject)

\* The scene holds one component of SceneComponents, alone or followed by a car,
\* and one traffic light.
InitComponent ==
    /\ Constructed
    /\ configFile \in {MissingFile, ThicknessFile}
    /\ trafficLights = <<LightA>>
    /\ roadSplines = <<>>
    /\ meshComponents \in {<<c>> : c \in SceneComponents}
                          \cup {<<c, CarComponent>> : c \in SceneComponents}
    /\ gameMode = FALSE
    /\ crosswalkZones = <<>>
    /\ roadStencils = <<>>
    /\ dedicatedServer = FALSE
    /\ actorRegistry \in {HeroRegistry, <<>>}

NextComponent ==
    \/ Set
    \/ PostPhysTick
    \/ RenderThread

ComponentSpec == InitComponent /\ [][NextComponent]_vars

\* The dynamic pass has run on the scene.
PassRan == Ran(steps, "AnnotateDynamicObjects")

\* The component is one the pass annotates: it meets every filter and has a
\* static or skinned mesh whose name is accepted.
PassesFilters(c) ==
    /\ c.visible
    /\ c.owner # 0
    /\ c.owner # FindPlayerActor(actorRegistry)
    /\ ~(c.carlaActor /\ c.isVehicle /\ c.ignored)
    /\ c.location[3] <= 10000

NameAccepted(c) ==
    c.kind = "static" /\ c.hasAsset => c.nameHasMesh /\ ~c.nameHasRoad

\* The z extent of the mesh bounds the pass uses.
MeshExtentZ(c) == IF c.hasAsset THEN c.meshExtent[3] ELSE c.actorExtent[3]

\* C13: the capsule of a Poles mesh at height z has half height
\* max(mesh extent z, actor extent z) plus 0 when z > 250 and plus z
\* otherwise, z = 250 included.
C13_PoleGroundOffset ==
    PassRan =>
        LET c == meshComponents[1]
            z == c.location[3]
        IN  (/\ c.tag = "Poles"
             /\ c.kind \in {"static", "skeletal"}
             /\ PassesFilters(c)
             /\ NameAccepted(c))
            => /\ Len(DynamicLines) >= 1
               /\ DynamicLines[1].kind = "capsule"
               /\ DynamicLines[1].half =
                      Max2(MeshExtentZ(c), c.actorExtent[3])
                      + (IF z > 250 THEN 0 ELSE z)
               /\ (z = 300 => DynamicLines[1].half = Max2(MeshExtentZ(c), c.actorExtent[3]))
               /\ (z = 100 => DynamicLines[1].half = Max2(MeshExtentZ(c), c.actorExtent[3]) + 100)

\* A pole at height 250, its actor taller than its mesh: half height 80 + 250.
C13_Witness ==
    /\ PassRan
    /\ Len(meshComponents) = 1
    /\ meshComponents[1].tag = "Poles"
    /\ meshComponents[1].location[3] = 250
    /\ meshComponents[1].hasAsset
    /\ meshComponents[1].actorExtent[3] = 80
    /\ Len(DynamicLines) = 1
    /\ DynamicLines[1].kind = "capsule"
    /\ DynamicLines[1].half = 330

----------------------------------------------------------------------------
(* The sensor on a dedicated server                                        *)

\* The changing world of Spec, with the net mode NM_DedicatedServer.
InitServer ==
    /\ Constructed
    /\ configFile = MissingFile
    /\ trafficLights = <<>>
    /\ roadSplines = <<>>
    /\ meshComponents = <<>>
    /\ gameMode \in BOOLEAN
    /\ crosswalkZones = OneCrosswalk
    /\ roadStencils = OneStencil
    /\ dedicatedServer = TRUE
    /\ actorRegistry = HeroRegistry

ServerSpec == InitServer /\ [][Next]_vars

\* C14: on a dedicated server no draw call adds anything: whatever ticks have
\* run, the dynamic and the persistent batch hold no primitive.
C14_ServerDrawsNothing ==
    dedicatedServer => DynamicLines = <<>> /\ PersistentLines = <<>>

\* A tick on a dedicated server that ran the dynamic pass over a component and
\* all four one-time annotators, with a traffic light and two splines there.
C14_Witness ==
    /\ dedicatedServer
    /\ steps = <<"ClearDynamic", "AnnotateDynamicObjects", "StopLines", "RouteLines",
                 "Crosswalks", "Stencils", "RequestPixelReadback">>
    /\ Len(meshComponents) >= 1
    /\ Len(trafficLights) >= 1
    /\ Len(roadSplines) = 2
    /\ DynamicLines = <<>>
    /\ PersistentLines = <<>>

----------------------------------------------------------------------------
(* The sensor over traffic lights with and without a stop box collider     *)

\* A traffic light whose GetComponentByClass(UBoxComponent) yields nullptr.
LightNoCollider == [hasCollider |-> FALSE, collider |-> NullCollider]

InitLight ==
    /\ Constructed
    /\ configFile \in {MissingFile, ThicknessFile}
    /\ trafficLights \in SeqsUpTo({LightA, LightB, LightNoCollider}, MaxTrafficLights)
    /\ roadSplines = <<>>
    /\ meshComponents = <<>>
    /\ gameMode = FALSE
    /\ crosswalkZones = <<>>
    /\ roadStencils = <<>>
    /\ dedicatedServer = FALSE
    /\ actorRegistry = HeroRegistry

NextLight ==
    \/ Set
    \/ PostPhysTick
    \/ RenderThread

LightSpec == InitLight /\ [][NextLight]_vars

\* The traffic lights that have a stop box collider, in the order of the scene.
LightsWithCollider == SelectSeq(trafficLights, LAMBDA l : l.hasCollider)

StopLinePrims == PrimsOf(PersistentLines, "stop_line")

\* C15: once the stop-line block has run, the sensor has not failed and the
\* stop lines in the persistent batch are those of the traffic lights that have
\* a collider, one each and in order; a light without collider has none.
C15_MissingColliderSkipped ==
    /\ ~crashed
    /\ added_persisted_stop_lines =>
          /\ Len(StopLinePrims) = Len(LightsWithCollider)
          /\ \A k \in 1..Len(StopLinePrims) :
                StopLinePrims[k].verts = StopLineOf(LightsWithCollider[k])

----------------------------------------------------------------------------
(* Components without a mesh asset                                         *)

SolidBoxLabels == {"TrafficLight", "TrafficSigns"}

DrawnLabels == SolidBoxLabels \cup VehicleLabels \cup {"Poles"}

\* A static or skinned mesh component that has no mesh asset, meets the
\* filters and carries a tag the dispatch draws.
AssetlessDrawable(c) ==
    /\ c.kind \in {"static", "skeletal"}
    /\ ~c.hasAsset
    /\ PassesFilters(c)
    /\ c.tag \in DrawnLabels

\* C16 as stated: a static or skinned mesh component without mesh asset is
\* skipped, so the first component of the scene leaves nothing in the batch.
C16_AssetlessSkipped ==
    PassRan =>
        LET c == meshComponents[1]
        IN  AssetlessDrawable(c) => Len(DynamicLines) = Len(meshComponents) - 1

\* C16, amended: a static or skinned mesh component without mesh asset is
\* drawn from the bounds of its owner actor: a solid box at the component with
\* the actor's extent, a box at the actor's origin with the actor's extent, or a
\* capsule of the actor's half height, by its tag; only a component that is
\* neither a static nor a skinned mesh is skipped.
C16_AssetlessDrawnFromActorBounds ==
    PassRan =>
        LET c == meshComponents[1]
        IN  /\ AssetlessDrawable(c) =>
                 /\ Len(DynamicLines) = Len(meshComponents)
                 /\ c.tag \in SolidBoxLabels =>
                       /\ DynamicLines[1].kind = "solidbox"
                       /\ DynamicLines[1].verts = <<c.location, c.actorExtent>>
                 /\ c.tag \in VehicleLabels =>
                       /\ DynamicLines[1].kind = "box"
                       /\ DynamicLines[1].verts = <<c.actorOrigin, c.actorExtent>>
                 /\ c.tag = "Poles" =>
                       /\ DynamicLines[1].kind = "capsule"
                       /\ DynamicLines[1].half =
                              c.actorExtent[3]
                              + (IF c.location[3] > 250 THEN 0 ELSE c.location[3])
            /\ c.kind \notin {"static", "skeletal"} =>
                 Len(DynamicLines) = Len(meshComponents) - 1

\* A static mesh component tagged Car, without static mesh: one box, with the
\* origin and the extent of the owner's bounds.
C16_Witness ==
    /\ PassRan
    /\ Len(meshComponents) = 1
    /\ meshComponents[1].kind = "static"
    /\ ~meshComponents[1].hasAsset
    /\ meshComponents[1].tag = "Car"
    /\ Len(DynamicLines) = 1
    /\ DynamicLines[1].kind = "box"
    /\ DynamicLines[1].verts = <<meshComponents[1].actorOrigin, <<55, 65, 80>>>>

----------------------------------------------------------------------------
(* The filters of the dynamic pass                                         *)

\* The primitive is the one the dispatch draws for the component: a solid box
\* at the component, a box at the origin of its bounds, a capsule above it.
FromComponent(p, c) ==
    CASE p.kind = "solidbox" -> p.verts[1] = c.location
      [] p.kind = "box"      -> p.verts[1] \in {c.actorOrigin,
                                                VAdd(c.location, <<0, 0, c.meshExtent[3]>>)}
      [] p.kind = "capsule"  -> /\ p.verts[1][1] = c.location[1]
                                /\ p.verts[1][2] = c.location[2]
      [] OTHER               -> FALSE

----------------------------------------------------------------------------
(* The tag dispatch of the dynamic pass                                    *)

\* The component reaches the dispatch: it meets the filters and is a static or
\* skinned mesh whose name is accepted.
Dispatched(c) ==
    /\ PassesFilters(c)
    /\ c.kind \in {"static", "skeletal"}
    /\ NameAccepted(c)

\* The thickness the loaded configuration gives: the file's when it has been
\* read, the built-in one otherwise.
ConfiguredThickness(fromFile, builtIn) ==
    IF configured /\ configFile.status = "ok" THEN fromFile ELSE builtIn

\* The primitives of the dynamic batch drawn for the component.
DynamicOf(c) == SelectSeq(DynamicLines, LAMBDA p : FromComponent(p, c))

\* C18: a dispatched TrafficLight or TrafficSigns component yields exactly one
\* solid box; a Car, Bus, Motorcycle, Train, Truck, Bicycle or Pedestrians one
\* exactly one wireframe box of the configured vehicle-box thickness; a Poles
\* one exactly one capsule of radius 0.1 and the configured pole thickness; any
\* other tag nothing.  All are in the dynamic batch; the persistent batch keeps
\* holding the one stop line of the scene and nothing else.
C18_TagDispatch ==
    PassRan =>
        LET c == meshComponents[1]
            mine == DynamicOf(c)
        IN  /\ Dispatched(c) =>
                 /\ c.tag \in {"TrafficLight", "TrafficSigns"} =>
                       /\ Len(mine) = 1
                       /\ mine[1].kind = "solidbox"
                 /\ c.tag \in {"Car", "Bus", "Motorcycle", "Train", "Truck",
                               "Bicycle", "Pedestrians"} =>
                       /\ Len(mine) = 1
                       /\ mine[1].kind = "box"
                       /\ mine[1].thickness = ConfiguredThickness(12, 5)
                 /\ c.tag = "Poles" =>
                       /\ Len(mine) = 1
                       /\ mine[1].kind = "capsule"
                       /\ mine[1].radius10 = 1
                       /\ mine[1].thickness = ConfiguredThickness(12, 8)
                 /\ c.tag \in {"None", "Roads", "Buildings", "Rider", "Other"} =>
                       mine = <<>>
                 /\ Len(DynamicLines) = Len(mine) + Len(meshComponents) - 1
            /\ \A j \in 1..Len(DynamicLines) : DynamicLines[j].cat = "dynamic"
            /\ Len(PersistentLines) = 1
            /\ PersistentLines[1].cat = "stop_line"

\* A TrafficSigns component alone in the scene: one solid box in the dynamic
\* batch, the stop line alone in the persistent one.
C18_Witness ==
    /\ PassRan
    /\ Len(meshComponents) = 1
    /\ meshComponents[1].tag = "TrafficSigns"
    /\ Len(DynamicLines) = 1
    /\ DynamicLines[1].kind = "solidbox"
    /\ DynamicLines[1].verts[1] = meshComponents[1].location
    /\ Len(PersistentLines) = 1

----------------------------------------------------------------------------
(* The neighbour lookup of the spline annotator                            *)

\* The lane id of the neighbour, as the rule states it: one lower for Left, one
\* higher for Right, stepping over lane 0.
NeighborLaneRule(s) ==
    IF s.OrientationType = "Left"
    THEN (IF s.LaneID = 1 THEN -1 ELSE s.LaneID - 1)
    ELSE (IF s.LaneID = -1 THEN 1 ELSE s.LaneID + 1)

\* The neighbours of a spline: the splines of its road with that lane id.
NeighborsOf(s) == OnRoadWithLane(s, NeighborLaneRule(s))

\* C19: a spline is drawn only if a spline of the same road has the lane id
\* L - 1 (Left; -1 when L = 1) or L + 1 (Right; +1 when L = -1), and only if its
\* kind is Driving, Shoulder, Sidewalk or Median; a lane 0 spline is never the
\* neighbour of a lane +1 or -1 spline; and a non-junction right-oriented
\* Driving spline of negative lane id whose neighbours are all Driving is drawn.
C19_NeighborLookup ==
    added_persisted_route_lines =>
        \A i \in 1..Len(roadSplines) :
            LET s == roadSplines[i]
            IN  /\ Drawn(s) =>
                     /\ NeighborsOf(s) # {}
                     /\ s.BoundaryType \in {"Driving", "Shoulder", "Sidewalk", "Median"}
                /\ s.LaneID \in {1, -1} =>
                     \A k \in NeighborsOf(s) : roadSplines[k].LaneID # 0
                /\ (/\ s.LaneID \in {1, -1}
                    /\ \A k \in 1..Len(roadSplines) :
                          k # i => roadSplines[k].LaneID = 0)
                   => ~Drawn(s)
                /\ (/\ ~s.bIsJunction
                    /\ s.OrientationType = "Right"
                    /\ s.BoundaryType = "Driving"
                    /\ s.LaneID < 0
                    /\ NeighborsOf(s) # {}
                    /\ \A k \in NeighborsOf(s) : roadSplines[k].BoundaryType = "Driving")
                   => Drawn(s)

\* A right-oriented Driving spline of lane -1 with the Driving spline of lane
\* +1 of its road: drawn, its neighbour found across the centre.
C19_Witness ==
    /\ roadSplines = <<SplineOfShape(1, -1, 2), SplineOfShape(1, 1, 1)>>
    /\ added_persisted_route_lines
    /\ Ran(steps, "RouteLines")
    /\ Drawn(roadSplines[1])
    /\ ~Drawn(roadSplines[2])
    /\ Len(SplinePrims) = 2

----------------------------------------------------------------------------
(* The segments of a drawn spline                                          *)

FileRead == configured /\ configFile.status = "ok"

\* The colours and the thickness the loaded configuration gives to splines.
ConfiguredLaneLines == IF FileRead THEN <<10, 20, 30>> ELSE <<98, 183, 249>>

ConfiguredRoadBoundaries == IF FileRead THEN <<40, 50, 60>> ELSE <<200, 36, 35>>

ConfiguredRoadLine == ConfiguredThickness(12, 8)

\* should_render of a spline of the scene, and its kind one of the four.
Renderable(s) ==
    /\ s.BoundaryType \in {"Driving", "Shoulder", "Sidewalk", "Median"}
    /\ ShouldRender(s, SplinesOfRoad(roadSplines, s.RoadID))

\* The segments of the persistent batch that lie on the spline.
SegmentsOf(s) ==
    SelectSeq(SplinePrims,
              LAMBDA p : Len(s.points) >= 1 /\ p.verts[1][2] = s.points[1][2])

Copies(s) == Cardinality({k \in 1..Len(roadSplines) : roadSplines[k] = s})

\* The segment from point i to point i + 1, lowered by the road-line thickness.
IsSegment(p, s, i) ==
    /\ p.kind = "line"
    /\ p.verts = << VAdd(s.points[i], <<0, 0, 0 - ConfiguredRoadLine>>),
                    VAdd(s.points[i + 1], <<0, 0, 0 - ConfiguredRoadLine>>) >>
    /\ p.thickness = ConfiguredRoadLine
    /\ p.color = IF s.BoundaryType = "Driving" THEN ConfiguredLaneLines
                 ELSE ConfiguredRoadBoundaries

\* C20: a renderable spline of k points has its k - 1 segments in the
\* persistent batch, from point i to point i + 1 for i = 1 .. k - 1 in order
\* (once per copy of the spline in the scene), none when k < 2 or when it is
\* not renderable; a Driving spline's segments have the lane-line colour, the
\* others the road-boundary colour, all the configured road-line thickness;
\* the batch holds no other spline segment.
C20_SplineSegments ==
    added_persisted_route_lines =>
        /\ \A i \in 1..Len(roadSplines) :
              LET s == roadSplines[i]
                  k == Len(s.points)
                  segs == SegmentsOf(s)
              IN  IF Renderable(s) /\ k >= 2
                  THEN /\ Len(segs) = Copies(s) * (k - 1)
                       /\ \A j \in 1..Len(segs) :
                             IsSegment(segs[j], s, ((j - 1) % (k - 1)) + 1)
                  ELSE segs = <<>>
        /\ \A j \in 1..Len(SplinePrims) :
              \E i \in 1..Len(roadSplines) :
                  /\ Len(roadSplines[i].points) >= 2
                  /\ SplinePrims[j].verts[1][2] = roadSplines[i].points[1][2]
        /\ \A j \in 1..Len(PersistentLines) : PersistentLines[j].cat = "spline"

\* The three points of lane +2 next to lane +1 gave two segments, in order,
\* 8 units below the points.
C20_Witness ==
    /\ roadSplines = <<SplineOfShape(1, 2, 1), SplineOfShape(1, 1, 1)>>
    /\ configFile = MissingFile
    /\ added_persisted_route_lines
    /\ Ran(steps, "RouteLines")
    /\ PersistentLines # <<>>
    /\ [j \in 1..Len(PersistentLines) |-> PersistentLines[j].verts] =
          << << <<100, 5701, -8>>, <<200, 5701, -8>> >>,
             << <<200, 5701, -8>>, <<300, 5701, -8>> >> >>
    /\ \A j \in 1..Len(PersistentLines) : PersistentLines[j].color = <<98, 183, 249>>

----------------------------------------------------------------------------
(* The handoff to the render thread                                        *)

\* A step of the render thread: it takes one queued readback.
RenderStep == pendingReadbacks' < pendingReadbacks

----------------------------------------------------------------------------
(* Relations between the flags                                             *)

\* C22: after every step the crosswalk flag equals the stencil flag and either
\* of them true implies the stop line flag true; and every tick ends with the
\* stop line flag true, whatever the world holds.
C22_FlagRelations ==
    [][ /\ added_persisted_crosswalks' = added_persisted_stencils'
        /\ (added_persisted_crosswalks' \/ added_persisted_stencils')
              => added_persisted_stop_lines'
        /\ TickStep => added_persisted_stop_lines' ]_vars

\* A first tick in a world with a game mode and no traffic light: the three
\* flags are true together.
C22_Witness ==
    /\ trafficLights = <<>>
    /\ gameMode
    /\ Ran(steps, "StopLines")
    /\ Ran(steps, "Crosswalks")
    /\ Ran(steps, "Stencils")
    /\ added_persisted_crosswalks
    /\ added_persisted_stencils
    /\ added_persisted_stop_lines

----------------------------------------------------------------------------
(* The route line flag                                                     *)

\* C23: a tick that starts with the route-line flag false ends with it true
\* exactly when the world holds a road spline, drawn or not; no other step
\* changes the flag; and a tick that starts with the flag true adds no spline
\* line, so splines spawned after the flag was set are never drawn.
C23_RouteFlagFollowsSplinesFound ==
    [][ /\ TickStep /\ ~added_persisted_route_lines
           => (added_persisted_route_lines' <=> Len(roadSplines) > 0)
        /\ ~TickStep => added_persisted_route_lines' = added_persisted_route_lines
        /\ added_persisted_route_lines
           => /\ added_persisted_route_lines'
              /\ PrimsOf(PersistentLines', "spline") = PrimsOf(PersistentLines, "spline")
      ]_vars

\* Lane +1 was alone when the flag was set and was not renderable; lane +2,
\* renderable beside it, spawned later, and a further tick has drawn nothing.
C23_Witness ==
    /\ roadSplines = <<SplineLane1, SplineLane2>>
    /\ added_persisted_route_lines
    /\ steps # <<>>
    /\ ~Ran(steps, "RouteLines")
    /\ PrimsOf(PersistentLines, "spline") = <<>>
    /\ ShouldRender(SplineLane2, roadSplines)

----------------------------------------------------------------------------
(* The sensor over one spline and its neighbours                           *)

BoundaryKinds == <<"Driving", "Shoulder", "Sidewalk", "Median", "Other">>

\* A spline of two points of the given kind (1..5), orientation and junction
\* flag on road 1; its points are its own.
SplineOfKind(lane, kind, orientation, junction) ==
    Spline(1, lane, BoundaryKinds[kind], orientation, junction,
           SplinePoints(1, lane,
                        10 + 4 * kind + (IF orientation = "Left" THEN 0 ELSE 2)
                           + (IF junction THEN 1 ELSE 0),
                        2))

\* The splines whose draw decision is looked at.
SubjectSplines ==
    {SplineOfKind(lane, kind, orientation, junction) :
        lane \in LaneIDs, kind \in 1..5,
        orientation \in {"Left", "Right"}, junction \in BOOLEAN}

\* The splines around them: every kind on every lane.
NeighborSplines ==
    {SplineOfKind(lane, kind, "Left", FALSE) : lane \in LaneIDs, kind \in 1..5}

\* A spline alone, with one other spline, or with two others of one lane.
DecisionScenes ==
    {<<s>> : s \in SubjectSplines}
    \cup {<<s, n>> : s \in SubjectSplines, n \in NeighborSplines}
    \cup {<<s, n[1], n[2]>> :
             s \in SubjectSplines,
             n \in {m \in NeighborSplines \X NeighborSplines : m[1].LaneID = m[2].LaneID}}

InitDecision ==
    /\ Constructed
    /\ configFile = MissingFile
    /\ trafficLights = <<>>
    /\ roadSplines \in DecisionScenes
    /\ meshComponents = <<>>
    /\ gameMode = FALSE
    /\ crosswalkZones = <<>>
    /\ roadStencils = <<>>
    /\ dedicatedServer = FALSE
    /\ actorRegistry = HeroRegistry

NextDecision ==
    \/ Set
    \/ PostPhysTick
    \/ RenderThread

DecisionSpec == InitDecision /\ [][NextDecision]_vars

\* The deciding neighbour of a spline that has neighbours: the last of them in
\* the order of the scene.
DecidingNeighbor(s) ==
    LET last == CHOOSE k \in NeighborsOf(s) : \A j \in NeighborsOf(s) : j <= k
    IN  roadSplines[last]

\* C24: no Shoulder spline is drawn; a junction spline is drawn only if it is
\* a Sidewalk or a Median and its deciding neighbour is a Driving or a
\* Shoulder; and no spline whose deciding neighbour is a Sidewalk, a Median or
\* of another kind is drawn, whatever its orientation.
C24_DecisionTable ==
    added_persisted_route_lines =>
        \A i \in 1..Len(roadSplines) :
            LET s == roadSplines[i]
            IN  /\ s.BoundaryType = "Shoulder" => ~Drawn(s)
                /\ s.bIsJunction /\ Drawn(s) =>
                      /\ s.BoundaryType \in {"Sidewalk", "Median"}
                      /\ NeighborsOf(s) # {}
                      /\ DecidingNeighbor(s).BoundaryType \in {"Driving", "Shoulder"}
                /\ (/\ NeighborsOf(s) # {}
                    /\ DecidingNeighbor(s).BoundaryType \in {"Sidewalk", "Median", "Other"})
                   => ~Drawn(s)

\* A junction Sidewalk of lane +2 beside the Shoulder of lane +1 is drawn; the
\* Shoulder is not.
C24_Witness ==
    /\ roadSplines = <<SplineOfKind(2, 3, "Left", TRUE), SplineOfKind(1, 2, "Left", FALSE)>>
    /\ added_persisted_route_lines
    /\ Ran(steps, "RouteLines")
    /\ Drawn(roadSplines[1])
    /\ ~Drawn(roadSplines[2])
    /\ Len(SplinePrims) = 1

----------------------------------------------------------------------------
(* Several neighbours, or none                                             *)

\* C25: a spline for which no spline of its road has the neighbour lane id is
\* not drawn; one that has such neighbours is drawn exactly when it would be
\* with the last of them as its only neighbour, whatever the earlier ones are.
C25_LastNeighborDecides ==
    added_persisted_route_lines =>
        \A i \in 1..Len(roadSplines) :
            LET s == roadSplines[i]
            IN  IF NeighborsOf(s) = {}
                THEN ~Drawn(s)
                ELSE Drawn(s) <=>
                        /\ s.BoundaryType \in {"Driving", "Shoulder", "Sidewalk", "Median"}
                        /\ ShouldRender(s, <<DecidingNeighbor(s)>>)

\* A right-oriented Driving spline of lane -2 with two splines of lane -1, a
\* Driving one and then a Sidewalk: the Sidewalk decides, nothing is drawn; and
\* with the Driving one alone the spline would be drawn.
C25_Witness ==
    /\ roadSplines = <<SplineOfKind(-2, 1, "Right", FALSE),
                       SplineOfKind(-1, 1, "Left", FALSE),
                       SplineOfKind(-1, 3, "Left", FALSE)>>
    /\ added_persisted_route_lines
    /\ Ran(steps, "RouteLines")
    /\ ~Drawn(roadSplines[1])
    /\ ShouldRender(roadSplines[1], <<roadSplines[2]>>)
    /\ ~ShouldRender(roadSplines[1], <<roadSplines[3]>>)

----------------------------------------------------------------------------
(* The sensor over arbitrary crosswalk point sequences                     *)

MaxCrosswalkPoints == 6

\* Any sequence of points, closed or not, the empty one included.
InitPoints ==
    /\ Constructed
    /\ configFile = MissingFile
    /\ trafficLights = <<>>
    /\ roadSplines = <<>>
    /\ meshComponents = <<>>
    /\ gameMode = TRUE
    /\ crosswalkZones \in SeqsUpTo({PA, PB, PC, PD}, MaxCrosswalkPoints)
    /\ roadStencils = <<>>
    /\ dedicatedServer = FALSE
    /\ actorRegistry = HeroRegistry

NextPoints ==
    \/ Set
    \/ PostPhysTick
    \/ RenderThread

PointSpec == InitPoints /\ [][NextPoints]_vars

\* The positions after p that hold the point at p.
Repeats(points, p) == {q \in (p + 1)..Len(points) : points[q] = points[p]}

\* The closed runs of a sequence from position p on: the run that starts at p
\* ends before the next position holding the same point, and the position after
\* that one starts the next run, whatever point it holds; a run with no such
\* position is left out.
RECURSIVE ClosedRuns(_, _)
ClosedRuns(points, p) ==
    IF p > Len(points) \/ Repeats(points, p) = {} THEN <<>>
    ELSE LET q == CHOOSE r \in Repeats(points, p) : \A x \in Repeats(points, p) : r <= x
         IN  <<SubSeq(points, p, q - 1)>> \o ClosedRuns(points, q + 1)

\* C26: for every sequence of points the tick that runs the crosswalk annotator
\* ends; the meshes drawn are those of the closed runs of 3 or more points, in
\* order, so an unclosed last run and an empty sequence draw nothing and the
\* point after a closing one starts a run uncompared; and every index of a
\* mesh of n vertices is in 0 .. n - 1.
C26_AnyPointSequence ==
    /\ Ran(steps, "Crosswalks") => Ran(steps, "RequestPixelReadback")
    /\ added_persisted_crosswalks =>
          /\ DrawnMeshes = ExpectedMeshes(ClosedRuns(crosswalkZones, 1))
          /\ (crosswalkZones = <<>> \/ Repeats(crosswalkZones, 1) = {})
                => DrawnMeshes = <<>>
          /\ \A k \in 1..Len(DrawnMeshes) :
                \A j \in 1..Len(DrawnMeshes[k].indices) :
                    DrawnMeshes[k].indices[j] \in 0..(Len(DrawnMeshes[k].verts) - 1)

\* [A,B,C,A,A,D] : the triangle {A,B,C} is drawn, the A after the closing A
\* starts a run, and that run, unclosed, is not drawn.
C26_Witness ==
    /\ crosswalkZones = <<PA, PB, PC, PA, PA, PD>>
    /\ added_persisted_crosswalks
    /\ Ran(steps, "Crosswalks")
    /\ Ran(steps, "RequestPixelReadback")
    /\ DrawnMeshes = << [verts |-> <<<<0, 0, 0>>, <<400, 0, 0>>, <<400, 300, 0>>>>,
                         indices |-> <<0, 1, 2>>] >>

=============================================================================
